---- MODULE Spec2Model ----
(***************************************************************************)
(* The pixel grid mutation engine of yoto_app/pixel_art_editor.py          *)
(* (PixelArtEditor): the pixel buffer, the colour codec, the flood fill,   *)
(* the raster conversion and the undo/redo stacks, with the event handlers *)
(* that drive them.                                                        *)
(***************************************************************************)
EXTENDS Integers, Sequences, FiniteSets, TLC

(***************************************************************************)
(* Bounds of the model.                                                    *)
(***************************************************************************)
\* PixelArtEditor(size=...): the side of the square grid.
size == 3
\* Mutating user actions per session of Spec.
MaxMutations == 2
\* Cells painted in one drag gesture.
MaxDragCells == 2
\* Mutations of the scripted session of SpecCap beyond the history cap.
ExtraMutations == 4
\* In the scripted session every PressEvery-th mutation is painted by a press
\* on the grid instead of a click on the cell.
PressEvery == 26
\* The .mp3 files of the folder the MP3 script runs on, at most.
MaxFiles == 3

(***************************************************************************)
(* Program constants.                                                      *)
(***************************************************************************)
\* _push_undo: "if len(self._undo_stack) > 50".
UndoCap == 50

\* Python's None as a cell value / colour.
None == "None"

\* list[-1] and list[:-1]
Last(s) == s[Len(s)]
Front(s) == SubSeq(s, 1, Len(s) - 1)

(***************************************************************************)
(* Texts.  TLC strings are atoms, so the codec works on a text's           *)
(* characters: a sequence of one-character strings.  None is NoneChars.    *)
(* The editor's state holds colour texts as atoms; Text lists them with    *)
(* their characters.                                                       *)
(***************************************************************************)
Text ==
  [s \in {"#FFFFFF", "#F0F0F0", "#000000", "#GGG"} |->
     CASE s = "#FFFFFF" -> <<"#", "F", "F", "F", "F", "F", "F">>
       [] s = "#F0F0F0" -> <<"#", "F", "0", "F", "0", "F", "0">>
       [] s = "#000000" -> <<"#", "0", "0", "0", "0", "0", "0">>
       [] s = "#GGG"    -> <<"#", "G", "G", "G">>]

ColorTexts == DOMAIN Text

\* None as a value of the codec.
NoneChars == <<None>>

\* The characters of a text; '' has none.
Chars(s) == IF s = "" THEN <<>> ELSE IF s = None THEN NoneChars ELSE Text[s]

\* The text with the given characters.
Str(cs) == IF cs = <<>> THEN "" ELSE IF cs = NoneChars THEN None
           ELSE CHOOSE s \in ColorTexts : Text[s] = cs

HexDigits == <<"0", "1", "2", "3", "4", "5", "6", "7", "8", "9", "A", "B", "C", "D", "E", "F">>
LowerHexDigits == <<"0", "1", "2", "3", "4", "5", "6", "7", "8", "9", "a", "b", "c", "d", "e", "f">>


\* int(c, 16) of one hexadecimal digit.
HexVal(c) == (CHOOSE i \in 1..16 : HexDigits[i] = c \/ LowerHexDigits[i] = c) - 1

\* f"{v:02x}": lower-case digits.
HexByte_Lower(v) == <<LowerHexDigits[(v \div 16) + 1], LowerHexDigits[(v % 16) + 1]>>

\* f"{v:02X}"
HexByte(v) == <<HexDigits[(v \div 16) + 1], HexDigits[(v % 16) + 1]>>

AllHex(cs) == \A k \in 1..Len(cs) : \E i \in 1..16 : HexDigits[i] = cs[k] \/ LowerHexDigits[i] = cs[k]

IsDigit(c) == \E i \in 1..10 : HexDigits[i] = c

\* '#RRGGBB' or '#RRGGBBAA' with hexadecimal digits.
ValidEncoding(cs) == Len(cs) \in {7, 9} /\ cs[1] = "#" /\ AllHex(Tail(cs))

\* str.strip(): the text without its leading and trailing blanks.
Strip(cs) ==
  LET I == {i \in 1..Len(cs) : cs[i] # " "}
  IN  IF I = {} THEN <<>>
      ELSE SubSeq(cs, CHOOSE i \in I : \A j \in I : i <= j, CHOOSE i \in I : \A j \in I : j <= i)

\* int(t, 16) of a text t of at most two characters: blanks around the number
\* are ignored, one sign may come first, and there must be a digit; an empty
\* text or any other character raises.  ('0x' and '_' need three characters.)
IntHexOK(t) ==
  LET u == Strip(t)
      d == IF u # <<>> /\ u[1] \in {"+", "-"} THEN Tail(u) ELSE u
  IN  d # <<>> /\ AllHex(d)
RECURSIVE HexNumber(_)
HexNumber(ds) == IF ds = <<>> THEN 0 ELSE 16 * HexNumber(Front(ds)) + HexVal(Last(ds))
IntHex(t) ==
  LET u == Strip(t)
  IN  IF u[1] = "-" THEN 0 - HexNumber(Tail(u))
      ELSE IF u[1] = "+" THEN HexNumber(Tail(u)) ELSE HexNumber(u)

\* int(s[i:i+2], 16)
ByteOK(cs, i) == IntHexOK(SubSeq(cs, i, i + 1))
Byte(cs, i) == IntHex(SubSeq(cs, i, i + 1))

\* int(s[i] * 2, 16)
Nibble2OK(cs, i) == IntHexOK(<<cs[i], cs[i]>>)
Nibble2(cs, i) == IntHex(<<cs[i], cs[i]>>)

\* The number of digits of cs from position i on.
RECURSIVE DigitRun(_, _)
DigitRun(cs, i) == IF i <= Len(cs) /\ IsDigit(cs[i]) THEN 1 + DigitRun(cs, i + 1) ELSE 0

\* re.findall(r"[0-9]*\.?[0-9]+", s), scanning from position i.
RECURSIVE FindNumbers(_, _)
FindNumbers(cs, i) ==
  IF i > Len(cs) THEN <<>>
  ELSE LET d == DigitRun(cs, i)
           e == IF i + d <= Len(cs) /\ cs[i + d] = "." THEN DigitRun(cs, i + d + 1) ELSE 0
       IN  IF e > 0 THEN <<SubSeq(cs, i, i + d + e)>> \o FindNumbers(cs, i + d + e + 1)
           ELSE IF d > 0 THEN <<SubSeq(cs, i, i + d - 1)>> \o FindNumbers(cs, i + d)
           ELSE FindNumbers(cs, i + 1)

\* float(t) for a text of digits with at most one '.': the exact value as
\* [num, den].  Any other text raises.  (No text of the model that reaches
\* float has an exponent, a sign, 'inf' or 'nan'.)
FloatOK(t) ==
  /\ \A i \in 1..Len(t) : IsDigit(t[i]) \/ t[i] = "."
  /\ \E i \in 1..Len(t) : IsDigit(t[i])
  /\ Cardinality({i \in 1..Len(t) : t[i] = "."}) <= 1
RECURSIVE DecNumber(_)
DecNumber(ds) == IF ds = <<>> THEN 0 ELSE 10 * DecNumber(Front(ds)) + HexVal(Last(ds))
Float(t) ==
  LET RECURSIVE Pow10(_)
      Pow10(n) == IF n = 0 THEN 1 ELSE 10 * Pow10(n - 1)
      dot == {i \in 1..Len(t) : t[i] = "."}
      ds  == SelectSeq(t, IsDigit)
  IN  [num |-> DecNumber(ds),
       den |-> IF dot = {} THEN 1 ELSE Pow10(Len(t) - (CHOOSE i \in dot : TRUE))]

\* int(float(t))
IntFloat(t) == Float(t).num \div Float(t).den

\* [p for p in re.split(r'[,\s]+', s) if p]
RECURSIVE Split(_)
Split(cs) ==
  IF cs = <<>> THEN <<>>
  ELSE IF cs[1] \in {",", " "} THEN Split(Tail(cs))
  ELSE LET I == {i \in 1..Len(cs) : cs[i] \in {",", " "}}
           n == IF I = {} THEN Len(cs) + 1 ELSE CHOOSE i \in I : \A j \in I : i <= j
       IN  <<SubSeq(cs, 1, n - 1)>> \o Split(SubSeq(cs, n, Len(cs)))

\* The "rgba(...)" branch: the tuple it returns, or <<>> when it falls through
\* to the hexadecimal forms (fewer than three numbers found).
RgbaForm(s, alpha) ==
  LET nums == FindNumbers(s, 1)
  IN  IF Len(nums) < 3 THEN <<>>
      ELSE <<IntFloat(nums[1]), IntFloat(nums[2]), IntFloat(nums[3]),
             IF Len(nums) > 3
             THEN IF Float(nums[4]).num <= Float(nums[4]).den
                  THEN (Float(nums[4]).num * 255) \div Float(nums[4]).den  \* int(float(t) * 255)
                  ELSE IntFloat(nums[4])
             ELSE alpha>>

\* The comma/space separated numbers, tried when the length is none of 3, 4, 6, 8.
NumbersForm(s, alpha) ==
  LET parts == Split(s)
  IN  IF Len(parts) < 3 THEN <<0, 0, 0, alpha>>
      ELSE IF \E i \in 1..Len(parts) : i <= 4 /\ ~FloatOK(parts[i]) THEN <<0, 0, 0, alpha>>
      ELSE <<IntFloat(parts[1]), IntFloat(parts[2]), IntFloat(parts[3]),
             IF Len(parts) > 3 THEN IntFloat(parts[4]) ELSE alpha>>

\* _hex_to_rgba(hex_color, alpha), hex_color given by its characters; any
\* exception in a conversion gives (0, 0, 0, alpha).
_hex_to_rgba(hex_color, alpha) ==
  IF hex_color = NoneChars \/ hex_color = <<>> THEN <<0, 0, 0, alpha>>
  ELSE LET s0   == Strip(hex_color)
           \* s.lower().startswith('rgba')
           rgba == IF /\ Len(s0) >= 4
                      /\ s0[1] \in {"r", "R"} /\ s0[2] \in {"g", "G"}
                      /\ s0[3] \in {"b", "B"} /\ s0[4] \in {"a", "A"}
                   THEN RgbaForm(s0, alpha) ELSE <<>>
           s    == IF Len(s0) > 0 /\ s0[1] = "#" THEN Tail(s0) ELSE s0
       IN  IF rgba # <<>> THEN rgba
           ELSE CASE Len(s) = 3 ->
                       IF \A i \in 1..3 : Nibble2OK(s, i)
                       THEN <<Nibble2(s, 1), Nibble2(s, 2), Nibble2(s, 3), alpha>>
                       ELSE <<0, 0, 0, alpha>>
                  [] Len(s) = 4 ->
                       IF \A i \in 1..4 : Nibble2OK(s, i)
                       THEN <<Nibble2(s, 1), Nibble2(s, 2), Nibble2(s, 3), Nibble2(s, 4)>>
                       ELSE <<0, 0, 0, alpha>>
                  [] Len(s) = 6 ->
                       IF \A i \in {1, 3, 5} : ByteOK(s, i)
                       THEN <<Byte(s, 1), Byte(s, 3), Byte(s, 5), alpha>>
                       ELSE <<0, 0, 0, alpha>>
                  [] Len(s) = 8 ->
                       IF \A i \in {1, 3, 5, 7} : ByteOK(s, i)
                       THEN <<Byte(s, 1), Byte(s, 3), Byte(s, 5), Byte(s, 7)>>
                       ELSE <<0, 0, 0, alpha>>
                  [] OTHER -> NumbersForm(s, alpha)

\* The largest k in lo..hi with k * k <= v, by bisection.
RECURSIVE SqrtBetween(_, _, _)
SqrtBetween(v, lo, hi) ==
  IF lo = hi THEN lo
  ELSE LET mid == (lo + hi + 1) \div 2
       IN  IF mid <= v \div mid THEN SqrtBetween(v, mid, hi) ELSE SqrtBetween(v, lo, mid - 1)

\* int(v ** 0.5) for an integer v >= 0
ISqrt(v) == SqrtBetween(v, 0, v)

\* _color_distance(c1, c2), the colours given by their characters.  The sum
\* of squares is an integer, and int(v ** 0.5) is its integer square root for
\* every v up to 3 * 255 * 255.
\* The distance with alpha counted as a fourth component.
_color_distance_WithAlpha(c1, c2) ==
  IF c1 = NoneChars /\ c2 = NoneChars THEN 0
  ELSE IF c1 = NoneChars \/ c2 = NoneChars THEN 255
  ELSE LET p == _hex_to_rgba(c1, 255)
           q == _hex_to_rgba(c2, 255)
       IN  ISqrt((p[1] - q[1]) * (p[1] - q[1]) + (p[2] - q[2]) * (p[2] - q[2])
                 + (p[3] - q[3]) * (p[3] - q[3]) + (p[4] - q[4]) * (p[4] - q[4]))

_color_distance(c1, c2) ==
  IF c1 = NoneChars /\ c2 = NoneChars THEN 0
  ELSE IF c1 = NoneChars \/ c2 = NoneChars THEN 255
  ELSE LET p == _hex_to_rgba(c1, 255)
           q == _hex_to_rgba(c2, 255)
       IN  ISqrt((p[1] - q[1]) * (p[1] - q[1]) + (p[2] - q[2]) * (p[2] - q[2])
                 + (p[3] - q[3]) * (p[3] - q[3]))

(***************************************************************************)
(* The pixel grid: self.pixels[y][x], rows of cells, 0-based x and y.      *)
(***************************************************************************)
Coord == 0..(size - 1)
CellValues == ColorTexts \cup {None}

\* _color_distance over the colours of the model, computed once.
DistanceTable == [c1 \in CellValues |-> [c2 \in CellValues |-> _color_distance(Chars(c1), Chars(c2))]]
Distance(c1, c2) == DistanceTable[c1][c2]

Cell(px, x, y) == px[y + 1][x + 1]
SetCell(px, x, y, v) == [px EXCEPT ![y + 1][x + 1] = v]

\* [[v for _ in range(size)] for _ in range(size)]
Filled(v) == [y \in 1..size |-> [x \in 1..size |-> v]]

(***************************************************************************)
(* _flood_fill: the explicit stack, the visited set, the four neighbours.  *)
(***************************************************************************)
\* The loop with coordinates wrapping around the grid's edges.
RECURSIVE FloodLoop_Wrap(_, _, _, _, _, _)
FloodLoop_Wrap(px, stack, visited, target, repl, tol) ==
  IF stack = <<>> THEN px
  ELSE LET top  == stack[Len(stack)]
           rest == SubSeq(stack, 1, Len(stack) - 1)
           x    == top[1]
           y    == top[2]
       IN  IF top \in visited THEN FloodLoop_Wrap(px, rest, visited, target, repl, tol)
           ELSE IF x < 0 \/ y < 0 \/ x >= size \/ y >= size
                THEN FloodLoop_Wrap(px, rest, visited \cup {top}, target, repl, tol)
           ELSE IF Distance(Cell(px, x, y), target) <= tol
                THEN FloodLoop_Wrap(SetCell(px, x, y, repl),
                                    rest \o << <<(x + 1) % size, y>>, <<(x + size - 1) % size, y>>,
                                               <<x, (y + 1) % size>>, <<x, (y + size - 1) % size>> >>,
                                    visited \cup {top}, target, repl, tol)
           ELSE FloodLoop_Wrap(px, rest, visited \cup {top}, target, repl, tol)

RECURSIVE FloodLoop(_, _, _, _, _, _)
FloodLoop(px, stack, visited, target, repl, tol) ==
  IF stack = <<>> THEN px
  ELSE LET top  == stack[Len(stack)]
           rest == SubSeq(stack, 1, Len(stack) - 1)
           x    == top[1]
           y    == top[2]
       IN  IF top \in visited THEN FloodLoop(px, rest, visited, target, repl, tol)
           ELSE IF x < 0 \/ y < 0 \/ x >= size \/ y >= size
                THEN FloodLoop(px, rest, visited \cup {top}, target, repl, tol)
           ELSE IF Distance(Cell(px, x, y), target) <= tol
                THEN FloodLoop(SetCell(px, x, y, repl),
                               rest \o << <<x + 1, y>>, <<x - 1, y>>, <<x, y + 1>>, <<x, y - 1>> >>,
                               visited \cup {top}, target, repl, tol)
           ELSE FloodLoop(px, rest, visited \cup {top}, target, repl, tol)

\* _flood_fill that fills the seed cell without testing it.
_flood_fill_SeedUnconditional(px, sx, sy, target_color, replacement_color, tolerance) ==
  LET tol  == IF tolerance < 0 THEN 0 ELSE tolerance
      repl == IF replacement_color = "" THEN None ELSE replacement_color
      tgt  == IF target_color = "" THEN None ELSE target_color
  IN  IF repl = tgt \/ sx < 0 \/ sy < 0 \/ sx >= size \/ sy >= size THEN px
      ELSE FloodLoop(SetCell(px, sx, sy, repl),
                     << <<sx + 1, sy>>, <<sx - 1, sy>>, <<sx, sy + 1>>, <<sx, sy - 1>> >>,
                     {<<sx, sy>>}, tgt, repl, tol)

\* _flood_fill without the early return for equal colours.
_flood_fill_NoEarlyReturn(px, sx, sy, target_color, replacement_color, tolerance) ==
  LET tol  == IF tolerance < 0 THEN 0 ELSE tolerance
      repl == IF replacement_color = "" THEN None ELSE replacement_color
      tgt  == IF target_color = "" THEN None ELSE target_color
  IN  FloodLoop(px, << <<sx, sy>> >>, {}, tgt, repl, tol)

\* _flood_fill that matches against the seed cell's colour, not target_color.
_flood_fill_TargetFromSeed(px, sx, sy, target_color, replacement_color, tolerance) ==
  LET tol  == IF tolerance < 0 THEN 0 ELSE tolerance
      repl == IF replacement_color = "" THEN None ELSE replacement_color
      tgt  == IF target_color = "" THEN None ELSE target_color
  IN  IF repl = tgt \/ sx < 0 \/ sy < 0 \/ sx >= size \/ sy >= size THEN px
      ELSE FloodLoop(px, << <<sx, sy>> >>, {}, Cell(px, sx, sy), repl, tol)

\* _flood_fill(sx, sy, target_color, replacement_color, tolerance) on grid px.
_flood_fill(px, sx, sy, target_color, replacement_color, tolerance) ==
  LET tol  == IF tolerance < 0 THEN 0 ELSE tolerance
      repl == IF replacement_color = "" THEN None ELSE replacement_color
      tgt  == IF target_color = "" THEN None ELSE target_color
  IN  IF repl = tgt THEN px
      ELSE FloodLoop(px, << <<sx, sy>> >>, {}, tgt, repl, tol)

(***************************************************************************)
(* The raster converter, on images that already have the grid's size (no   *)
(* resampling): an image is rows of (r, g, b, a); the cells of the grids   *)
(* it reads and writes are given by their characters.                      *)
(***************************************************************************)
\* A channel as Image.putpixel stores it in an 8-bit band.
Clip8(v) == IF v < 0 THEN 0 ELSE IF v > 255 THEN 255 ELSE v

\* _pixels_to_image(pixels)
_pixels_to_image(px) ==
  [y \in 1..size |-> [x \in 1..size |->
     IF px[y][x] = NoneChars THEN <<0, 0, 0, 0>>
     ELSE LET p == _hex_to_rgba(px[y][x], 255)
          IN  <<Clip8(p[1]), Clip8(p[2]), Clip8(p[3]), Clip8(p[4])>>]]

\* The cell _image_to_pixels writes for the pixel (r, g, b, a), with "{:X}" for
\* "{:02X}": no leading zero.
EncodePixel_NoPad(p) ==
  LET H(v) == IF v < 16 THEN <<HexDigits[v + 1]>> ELSE HexByte(v)
  IN  IF p[4] = 0 THEN NoneChars
      ELSE IF p[4] = 255 THEN <<"#">> \o H(p[1]) \o H(p[2]) \o H(p[3])
      ELSE <<"#">> \o H(p[1]) \o H(p[2]) \o H(p[3]) \o H(p[4])

\* The cell _image_to_pixels writes for the pixel (r, g, b, a).
EncodePixel(p) ==
  IF p[4] = 0 THEN NoneChars
  ELSE IF p[4] = 255 THEN <<"#">> \o HexByte(p[1]) \o HexByte(p[2]) \o HexByte(p[3])
  ELSE <<"#">> \o HexByte(p[1]) \o HexByte(p[2]) \o HexByte(p[3]) \o HexByte(p[4])

\* _image_to_pixels(img), img of size x size
_image_to_pixels(img) == [y \in 1..size |-> [x \in 1..size |-> EncodePixel(img[y][x])]]

\* A grid of the editor's state with its cells as characters, and back.
GridChars(px) == [y \in 1..Len(px) |-> [x \in 1..Len(px[y]) |-> Chars(px[y][x])]]
GridTexts(g) == [y \in 1..Len(g) |-> [x \in 1..Len(g[y]) |-> Str(g[y][x])]]

\* flip_image(image, direction): FLIP_LEFT_RIGHT / FLIP_TOP_BOTTOM
flip_image(img, direction) ==
  IF direction = "horizontal"
  THEN [y \in 1..size |-> [x \in 1..size |-> img[y][size + 1 - x]]]
  ELSE [y \in 1..size |-> [x \in 1..size |-> img[size + 1 - y][x]]]

(***************************************************************************)
(* The editor's state.                                                     *)
(***************************************************************************)
VARIABLES
  pixels,          \* self.pixels
  current_color,   \* self.current_color
  sampler_mode,    \* self.sampler_mode
  fill_mode,       \* self.fill_mode
  _drag_painting,  \* self._drag_painting
  _undo_stack,     \* self._undo_stack, oldest first
  _redo_stack,     \* self._redo_stack
  pointer,         \* the pointer over the grid: is it pressed, and the gesture so far
  op,              \* history: the last handler that read or wrote the grid or the stacks, with its arguments
  nmut,            \* history: number of mutating user actions so far
  pre_log,         \* history: the grid before each mutation of the current run of mutations
  undone,          \* history: number of on_undo that acted since the last mutation
  before_undo,     \* history: <<pixels, undo, redo>> before the on_undo that ran last
  fill,            \* the locals of the _flood_fill call in progress (SpecLoop), else NoFill
  codec,           \* a text on its way through the codec (SpecCodec) or a pair of colours
                   \* being measured (SpecDistance), else NoCodec
  batch            \* the run of the MP3 script's main (SpecBatch), else NoBatch

vars == <<pixels, current_color, sampler_mode, fill_mode, _drag_painting, _undo_stack,
          _redo_stack, pointer, op, nmut, pre_log, undone, before_undo, fill, codec, batch>>

editor == <<pixels, current_color, sampler_mode, fill_mode, _drag_painting, _undo_stack,
            _redo_stack>>

PointerUp == [down |-> FALSE, painted |-> 0, grid0 |-> <<>>, undo0 |-> <<>>]

\* The record of a handler's run.
Op(name, x, y, t, c1, c2) == [name |-> name, x |-> x, y |-> y, t |-> t, c1 |-> c1, c2 |-> c2]
Op0(name) == Op(name, -1, -1, -1, "", "")

\* No _flood_fill call is being followed step by step.
NoFill == [pc |-> "none"]

\* No text is on its way through the codec.
NoCodec == [pc |-> "none"]

\* The MP3 script is not running.
NoBatch == [pc |-> "none"]

\* __init__ and _build: all-white grid, black pen, modes off, empty stacks.
Init ==
  /\ pixels = Filled("#FFFFFF")
  /\ current_color = "#000000"
  /\ sampler_mode = FALSE
  /\ fill_mode = FALSE
  /\ _drag_painting = FALSE
  /\ _undo_stack = <<>>
  /\ _redo_stack = <<>>
  /\ pointer = PointerUp
  /\ op = Op0("init")
  /\ nmut = 0
  /\ pre_log = <<>>
  /\ undone = 0
  /\ before_undo = <<>>
  /\ fill = NoFill
  /\ codec = NoCodec
  /\ batch = NoBatch

(***************************************************************************)
(* History bookkeeping of the handlers (not program state).                *)
(***************************************************************************)
\* A handler that is one mutating user action.
NoteMutation(o) ==
  /\ op' = o
  /\ nmut' = nmut + 1
  /\ pre_log' = IF undone > 0 THEN <<pixels>> ELSE Append(pre_log, pixels)
  /\ undone' = 0
  /\ before_undo' = <<>>
  /\ UNCHANGED <<fill, codec, batch>>

\* A handler that only sets the pen, a mode or the drag flag.
NoteSetting == UNCHANGED <<op, nmut, pre_log, undone, before_undo, fill, codec, batch>>

\* Any other handler that is no mutation of the grid.
NoteOther(o) ==
  /\ op' = o
  /\ before_undo' = <<>>
  /\ UNCHANGED <<nmut, pre_log, undone, fill, codec, batch>>

(***************************************************************************)
(* Undo / redo.                                                            *)
(***************************************************************************)
\* _push_undo without the limit on the stack's size.
_push_undo_NoCap(us, rs, px) == [undo |-> Append(us, px), redo |-> <<>>]

\* _push_undo, on the two stacks and the grid: the stacks afterwards.
_push_undo(us, rs, px) ==
  LET a == Append(us, px)
  IN  [undo |-> IF Len(a) > UndoCap THEN Tail(a) ELSE a, redo |-> <<>>]

_can_undo == Len(_undo_stack) > 0
_can_redo == Len(_redo_stack) > 0

\* on_undo without its guard: the append runs, then pop() of the empty list raises.
on_undo_Unguarded ==
  /\ ~pointer.down
  /\ IF ~_can_undo
     THEN /\ _redo_stack' = Append(_redo_stack, pixels)
          /\ UNCHANGED <<pixels, current_color, sampler_mode, fill_mode, _drag_painting, _undo_stack>>
          /\ NoteOther(Op("on_undo", -1, -1, -1, "noop", ""))
     ELSE /\ _redo_stack' = Append(_redo_stack, pixels)
          /\ pixels' = Last(_undo_stack)
          /\ _undo_stack' = Front(_undo_stack)
          /\ UNCHANGED <<current_color, sampler_mode, fill_mode, _drag_painting>>
          /\ op' = Op0("on_undo")
          /\ undone' = undone + 1
          /\ before_undo' = <<pixels, _undo_stack, _redo_stack>>
          /\ UNCHANGED <<nmut, pre_log, fill, codec, batch>>
  /\ UNCHANGED pointer

\* on_undo taking the oldest snapshot: pop(0) for pop().
on_undo_PopOldest ==
  /\ ~pointer.down
  /\ IF ~_can_undo
     THEN /\ UNCHANGED editor
          /\ NoteOther(Op("on_undo", -1, -1, -1, "noop", ""))
     ELSE /\ _redo_stack' = Append(_redo_stack, pixels)
          /\ pixels' = Head(_undo_stack)
          /\ _undo_stack' = Tail(_undo_stack)
          /\ UNCHANGED <<current_color, sampler_mode, fill_mode, _drag_painting>>
          /\ op' = Op0("on_undo")
          /\ undone' = undone + 1
          /\ before_undo' = <<pixels, _undo_stack, _redo_stack>>
          /\ UNCHANGED <<nmut, pre_log, fill, codec, batch>>
  /\ UNCHANGED pointer

on_undo ==
  /\ ~pointer.down
  /\ IF ~_can_undo
     THEN /\ UNCHANGED editor
          /\ NoteOther(Op("on_undo", -1, -1, -1, "noop", ""))
     ELSE /\ _redo_stack' = Append(_redo_stack, pixels)
          /\ pixels' = Last(_undo_stack)
          /\ _undo_stack' = Front(_undo_stack)
          /\ UNCHANGED <<current_color, sampler_mode, fill_mode, _drag_painting>>
          /\ op' = Op0("on_undo")
          /\ undone' = undone + 1
          /\ before_undo' = <<pixels, _undo_stack, _redo_stack>>
          /\ UNCHANGED <<nmut, pre_log, fill, codec, batch>>
  /\ UNCHANGED pointer

\* on_redo that forgets to push the current grid onto the undo stack.
on_redo_NoPush ==
  /\ ~pointer.down
  /\ IF ~_can_redo
     THEN /\ UNCHANGED editor
          /\ NoteOther(Op("on_redo", -1, -1, -1, "noop", ""))
     ELSE /\ UNCHANGED _undo_stack
          /\ pixels' = Last(_redo_stack)
          /\ _redo_stack' = Front(_redo_stack)
          /\ UNCHANGED <<current_color, sampler_mode, fill_mode, _drag_painting>>
          /\ op' = Op0("on_redo")
          /\ pre_log' = <<>>
          /\ undone' = 0
          /\ before_undo' = IF op.name = "on_undo" THEN before_undo ELSE <<>>
          /\ UNCHANGED <<nmut, fill, codec, batch>>
  /\ UNCHANGED pointer

\* before_undo survives an on_redo that directly follows the on_undo that set it.
on_redo ==
  /\ ~pointer.down
  /\ IF ~_can_redo
     THEN /\ UNCHANGED editor
          /\ NoteOther(Op("on_redo", -1, -1, -1, "noop", ""))
     ELSE /\ _undo_stack' = Append(_undo_stack, pixels)
          /\ pixels' = Last(_redo_stack)
          /\ _redo_stack' = Front(_redo_stack)
          /\ UNCHANGED <<current_color, sampler_mode, fill_mode, _drag_painting>>
          /\ op' = Op0("on_redo")
          /\ pre_log' = <<>>
          /\ undone' = 0
          /\ before_undo' = IF op.name = "on_undo" THEN before_undo ELSE <<>>
          /\ UNCHANGED <<nmut, fill, codec, batch>>
  /\ UNCHANGED pointer

(***************************************************************************)
(* Colour, mode and pointer handlers.                                      *)
(***************************************************************************)
\* make_palette_click_handler(color).handler -> set_current_color(color)
palette_click(color) ==
  /\ ~pointer.down
  /\ current_color' = color
  /\ UNCHANGED <<pixels, sampler_mode, fill_mode, _drag_painting, _undo_stack, _redo_stack>>
  /\ UNCHANGED pointer
  /\ NoteSetting

\* on_color_change(e): the text of the colour field, stripped
on_color_change(val) ==
  /\ ~pointer.down
  /\ IF Len(Chars(val)) > 0 /\ Chars(val)[1] = "#" /\ Len(Chars(val)) \in {7, 4}
     THEN current_color' = val
     ELSE UNCHANGED current_color
  /\ UNCHANGED <<pixels, sampler_mode, fill_mode, _drag_painting, _undo_stack, _redo_stack>>
  /\ UNCHANGED pointer
  /\ NoteSetting

on_sampler_toggle(value) ==
  /\ ~pointer.down
  /\ sampler_mode' = value
  /\ UNCHANGED <<pixels, current_color, fill_mode, _drag_painting, _undo_stack, _redo_stack>>
  /\ UNCHANGED pointer
  /\ NoteSetting

on_fill_toggle(value) ==
  /\ ~pointer.down
  /\ fill_mode' = value
  /\ UNCHANGED <<pixels, current_color, sampler_mode, _drag_painting, _undo_stack, _redo_stack>>
  /\ UNCHANGED pointer
  /\ NoteSetting

\* _paint_from_event(ev), ev over cell (cx, cy) (possibly outside the grid), run
\* with the drag flag as the calling handler left it: the grid, the flag and the
\* stacks afterwards.
_paint_from_event(cx, cy, drag) ==
  IF cx < 0 \/ cy < 0 \/ cx >= size \/ cy >= size
  THEN [pixels |-> pixels, drag |-> drag, undo |-> _undo_stack, redo |-> _redo_stack]
  ELSE LET h == IF ~drag THEN _push_undo(_undo_stack, _redo_stack, pixels)
                ELSE [undo |-> _undo_stack, redo |-> _redo_stack]
       IN  [pixels |-> SetCell(pixels, cx, cy, current_color), drag |-> TRUE,
            undo |-> h.undo, redo |-> h.redo]

InGrid(cx, cy) == cx \in Coord /\ cy \in Coord

\* The effect of a gesture handler that sets the flags and paints from the event.
GesturePaint(name, cx, cy) ==
  LET r == _paint_from_event(cx, cy, TRUE)
  IN  /\ pixels' = r.pixels
      /\ _drag_painting' = r.drag
      /\ _undo_stack' = r.undo
      /\ _redo_stack' = r.redo
      /\ UNCHANGED <<current_color, sampler_mode, fill_mode>>
      /\ pointer' = IF pointer.down
                    THEN [pointer EXCEPT !.painted = IF InGrid(cx, cy) THEN @ + 1 ELSE @]
                    ELSE [down |-> TRUE, painted |-> IF InGrid(cx, cy) THEN 1 ELSE 0,
                          grid0 |-> pixels, undo0 |-> _undo_stack]
      /\ IF InGrid(cx, cy) /\ (~pointer.down \/ pointer.painted = 0)
         THEN NoteMutation(Op(name, cx, cy, -1, "", ""))
         ELSE NoteOther(Op(name, cx, cy, -1, "", ""))

\* ensure_grid._gd_tap_down
_gd_tap_down(cx, cy) ==
  /\ ~pointer.down
  /\ GesturePaint("_gd_tap_down", cx, cy)

\* ensure_grid._gd_pan_start
_gd_pan_start ==
  /\ _drag_painting' = TRUE
  /\ UNCHANGED <<pixels, current_color, sampler_mode, fill_mode, _undo_stack, _redo_stack>>
  /\ pointer' = IF pointer.down THEN pointer
                ELSE [down |-> TRUE, painted |-> 0, grid0 |-> pixels, undo0 |-> _undo_stack]
  /\ NoteSetting

\* ensure_grid._gd_pan_update
_gd_pan_update(cx, cy) ==
  /\ pointer.down
  /\ GesturePaint("_gd_pan_update", cx, cy)

\* ensure_grid._gd_pan_end
_gd_pan_end ==
  /\ pointer.down
  /\ _drag_painting' = FALSE
  /\ UNCHANGED <<pixels, current_color, sampler_mode, fill_mode, _undo_stack, _redo_stack>>
  /\ pointer' = PointerUp
  /\ NoteSetting

\* ensure_grid._gd_tap_up
_gd_tap_up ==
  /\ pointer.down
  /\ _drag_painting' = FALSE
  /\ UNCHANGED <<pixels, current_color, sampler_mode, fill_mode, _undo_stack, _redo_stack>>
  /\ pointer' = PointerUp
  /\ NoteSetting

(***************************************************************************)
(* Mutating handlers.                                                      *)
(***************************************************************************)
\* on_click with the fill-mode snapshot pushed only when the fill changes the grid.
on_click_PushIfChanged(x, y, tol) ==
  /\ ~pointer.down
  /\ UNCHANGED pointer
  /\ IF sampler_mode
     THEN /\ current_color' = Cell(pixels, x, y)
          /\ sampler_mode' = FALSE
          /\ UNCHANGED <<pixels, fill_mode, _drag_painting, _undo_stack, _redo_stack>>
          /\ NoteOther(Op("on_click", x, y, -1, "", ""))
     ELSE IF fill_mode
     THEN LET target      == Cell(pixels, x, y)
              replacement == current_color
              filled      == _flood_fill(pixels, x, y, target, replacement, tol)
              h           == IF filled = pixels THEN [undo |-> _undo_stack, redo |-> _redo_stack]
                             ELSE _push_undo(_undo_stack, _redo_stack, pixels)
          IN  /\ _undo_stack' = h.undo
              /\ _redo_stack' = h.redo
              /\ pixels' = filled
              /\ UNCHANGED <<current_color, sampler_mode, fill_mode, _drag_painting>>
              /\ NoteMutation(Op("on_click", x, y, tol, target, replacement))
     ELSE LET h == _push_undo(_undo_stack, _redo_stack, pixels)
          IN  /\ _undo_stack' = h.undo
              /\ _redo_stack' = h.redo
              /\ pixels' = SetCell(pixels, x, y, current_color)
              /\ UNCHANGED <<current_color, sampler_mode, fill_mode, _drag_painting>>
              /\ NoteMutation(Op("on_click", x, y, -1, "", ""))

\* make_pixel(x, y).on_click; tol is int(fill_tolerance_slider.value or 0)
on_click(x, y, tol) ==
  /\ ~pointer.down
  /\ UNCHANGED pointer
  /\ IF sampler_mode
     THEN /\ current_color' = Cell(pixels, x, y)
          /\ sampler_mode' = FALSE
          /\ UNCHANGED <<pixels, fill_mode, _drag_painting, _undo_stack, _redo_stack>>
          /\ NoteOther(Op("on_click", x, y, -1, "", ""))
     ELSE IF fill_mode
     THEN LET target      == Cell(pixels, x, y)
              replacement == current_color
              h           == _push_undo(_undo_stack, _redo_stack, pixels)
          IN  /\ _undo_stack' = h.undo
              /\ _redo_stack' = h.redo
              /\ pixels' = _flood_fill(pixels, x, y, target, replacement, tol)
              /\ UNCHANGED <<current_color, sampler_mode, fill_mode, _drag_painting>>
              /\ NoteMutation(Op("on_click", x, y, tol, target, replacement))
     ELSE LET h == _push_undo(_undo_stack, _redo_stack, pixels)
          IN  /\ _undo_stack' = h.undo
              /\ _redo_stack' = h.redo
              /\ pixels' = SetCell(pixels, x, y, current_color)
              /\ UNCHANGED <<current_color, sampler_mode, fill_mode, _drag_painting>>
              /\ NoteMutation(Op("on_click", x, y, -1, "", ""))

on_clear ==
  /\ ~pointer.down
  /\ UNCHANGED pointer
  /\ LET h == _push_undo(_undo_stack, _redo_stack, pixels)
     IN  /\ _undo_stack' = h.undo
         /\ _redo_stack' = h.redo
  /\ pixels' = Filled("#FFFFFF")
  /\ UNCHANGED <<current_color, sampler_mode, fill_mode, _drag_painting>>
  /\ NoteMutation(Op0("on_clear"))

\* The bulk replacement loop of _do_fill_inline / do_fill.
ReplaceSimilar(px, target, r, t) ==
  [y \in 1..size |-> [x \in 1..size |->
     IF Distance(px[y][x], target) <= t THEN r ELSE px[y][x]]]

\* _build._do_fill_inline: slider is fill_tolerance_slider.value, repl and
\* target the stripped texts of repl_field and target_field.
_do_fill_inline(slider, repl, target_text) ==
  /\ ~pointer.down
  /\ UNCHANGED pointer
  /\ LET t       == IF slider = 0 THEN 32 ELSE slider
         r       == IF repl = "" THEN None ELSE repl
         target0 == IF target_text = "" THEN current_color ELSE target_text
         target  == IF target0 = "" THEN None ELSE target0
         h       == _push_undo(_undo_stack, _redo_stack, pixels)
     IN  /\ _undo_stack' = h.undo
         /\ _redo_stack' = h.redo
         /\ pixels' = ReplaceSimilar(pixels, target, r, t)
         /\ NoteMutation(Op("_do_fill_inline", -1, -1, slider, target_text, repl))
  /\ UNCHANGED <<current_color, sampler_mode, fill_mode, _drag_painting>>

\* _stamp_pixels(stamp_grid)
_stamp_pixels(stamp_grid) ==
  /\ ~pointer.down
  /\ UNCHANGED pointer
  /\ LET h == _push_undo(_undo_stack, _redo_stack, pixels)
     IN  /\ _undo_stack' = h.undo
         /\ _redo_stack' = h.redo
  /\ pixels' = [y \in 1..size |-> [x \in 1..size |->
                  IF stamp_grid[y][x] # None THEN stamp_grid[y][x] ELSE pixels[y][x]]]
  /\ UNCHANGED <<current_color, sampler_mode, fill_mode, _drag_painting>>
  /\ NoteMutation(Op0("_stamp_pixels"))

\* _open_image_stamp_dialog.do_stamp with the offset wrapped around the grid.
do_stamp_Wrap(src, ox, oy, opaque_only) ==
  _stamp_pixels([ty \in 1..size |-> [tx \in 1..size |->
     LET x == (tx - 1 - ox) % size
         y == (ty - 1 - oy) % size
     IN  IF x < Len(src[1]) /\ y < Len(src) THEN src[y + 1][x + 1] ELSE None]])

\* _open_image_stamp_dialog.do_stamp: src is the loaded stamp image, a
\* non-empty grid; its cell (x, y) goes to (x + ox, y + oy) of a grid of None,
\* if that is a cell of the grid, and the grid is handed to _stamp_pixels.
do_stamp(src, ox, oy, opaque_only) ==
  LET Least(a, b) == IF a < b THEN a ELSE b
      stamp == [ty \in 1..size |-> [tx \in 1..size |->
                  LET x == tx - 1 - ox
                      y == ty - 1 - oy
                  IN  IF /\ x \in 0..(Least(size, Len(src[1])) - 1)
                         /\ y \in 0..(Least(size, Len(src)) - 1)
                      THEN IF opaque_only /\ src[y + 1][x + 1] = None THEN None
                           ELSE src[y + 1][x + 1]
                      ELSE None]]
  IN  _stamp_pixels(stamp)

\* on_flip_image(e, direction)
on_flip_image(direction) ==
  /\ ~pointer.down
  /\ UNCHANGED pointer
  /\ LET flipped_img == flip_image(_pixels_to_image(GridChars(pixels)), direction)
         h           == _push_undo(_undo_stack, _redo_stack, pixels)
     IN  /\ _undo_stack' = h.undo
         /\ _redo_stack' = h.redo
         /\ pixels' = GridTexts(_image_to_pixels(flipped_img))
  /\ UNCHANGED <<current_color, sampler_mode, fill_mode, _drag_painting>>
  /\ NoteMutation(Op("on_flip_image", -1, -1, -1, direction, ""))

(***************************************************************************)
(* Icon files.  A file is what the loaders can read of it: its extension,  *)
(* whether json.load gives a dict, the dict's 'pixels' list, the state of  *)
(* its 'png_base64' entry and the image in it, what load_icon_as_pixels    *)
(* returns for the path and what Image.open gives for it.  An optional     *)
(* value is a sequence of length 0 (none, or the call raises) or 1.        *)
(***************************************************************************)
DiagonalGrid == [y \in 1..size |-> [x \in 1..size |-> IF x = y THEN "#000000" ELSE None]]
GreyGrid == [y \in 1..size |-> [x \in 1..size |-> IF x = 1 THEN "#F0F0F0" ELSE "#FFFFFF"]]

IconFiles ==
  { [ext |-> "json", is_dict |-> TRUE, pixels |-> <<DiagonalGrid>>, png_base64 |-> "absent",
     png |-> <<>>, generic |-> <<>>, bitmap |-> <<>>],
    [ext |-> "json", is_dict |-> TRUE, pixels |-> <<>>, png_base64 |-> "ok",
     png |-> <<_pixels_to_image(GridChars(GreyGrid))>>, generic |-> <<>>, bitmap |-> <<>>],
    [ext |-> "png", is_dict |-> FALSE, pixels |-> <<>>, png_base64 |-> "absent",
     png |-> <<>>, generic |-> <<GreyGrid>>, bitmap |-> <<_pixels_to_image(GridChars(GreyGrid))>>],
    [ext |-> "json", is_dict |-> TRUE, pixels |-> <<>>, png_base64 |-> "corrupt",
     png |-> <<>>, generic |-> <<>>, bitmap |-> <<>>] }

\* refresh_grid reads self.pixels[y][x] for every cell of the size x size
\* grid control: it raises on a grid with a row or a cell missing (load_icon
\* then returns False, with self.pixels already assigned).
refresh_grid_raises(px) == Len(px) < size \/ \E y \in 1..Len(px) : y <= size /\ Len(px[y]) < size

\* The pixels a JSON record gives: 'pixels' if it is there, else the decoded
\* 'png_base64', else None.
RecordPixels(f) ==
  IF f.ext = "json" /\ f.is_dict
  THEN IF f.pixels # <<>> THEN f.pixels
       ELSE IF f.png_base64 = "ok" THEN <<GridTexts(_image_to_pixels(f.png[1]))>>
       ELSE <<>>
  ELSE <<>>

\* load_icon(path): the record first, then load_icon_as_pixels, then Image.open.
LoadIconPixels(f) ==
  IF RecordPixels(f) # <<>> THEN RecordPixels(f)
  ELSE IF f.generic # <<>> THEN f.generic
  ELSE IF f.bitmap # <<>> THEN <<GridTexts(_image_to_pixels(f.bitmap[1]))>>
  ELSE <<>>

\* load_icon with _push_undo called before the pixels are looked at.
load_icon_PushAlways(f) ==
  /\ ~pointer.down
  /\ UNCHANGED pointer
  /\ LET px == LoadIconPixels(f)
     IN  IF px # <<>> /\ px[1] # <<>>   \* if pixels and isinstance(pixels, list)
         THEN LET h == _push_undo(_undo_stack, _redo_stack, pixels)
              IN  /\ _undo_stack' = h.undo
                  /\ _redo_stack' = h.redo
                  /\ pixels' = px[1]
                  /\ NoteMutation(Op("load_icon", -1, -1, -1,
                                      IF refresh_grid_raises(px[1]) THEN "False" ELSE "True", ""))
         ELSE LET h == _push_undo(_undo_stack, _redo_stack, pixels)
              IN  /\ _undo_stack' = h.undo
                  /\ _redo_stack' = h.redo
                  /\ UNCHANGED pixels
                  /\ NoteOther(Op("load_icon", -1, -1, -1, "False", ""))
  /\ UNCHANGED <<current_color, sampler_mode, fill_mode, _drag_painting>>

load_icon(f) ==
  /\ ~pointer.down
  /\ UNCHANGED pointer
  /\ LET px == LoadIconPixels(f)
     IN  IF px # <<>> /\ px[1] # <<>>   \* if pixels and isinstance(pixels, list)
         THEN LET h == _push_undo(_undo_stack, _redo_stack, pixels)
              IN  /\ _undo_stack' = h.undo
                  /\ _redo_stack' = h.redo
                  /\ pixels' = px[1]
                  /\ NoteMutation(Op("load_icon", -1, -1, -1,
                                      IF refresh_grid_raises(px[1]) THEN "False" ELSE "True", ""))
         ELSE /\ UNCHANGED <<pixels, _undo_stack, _redo_stack>>
              /\ NoteOther(Op("load_icon", -1, -1, -1, "False", ""))
  /\ UNCHANGED <<current_color, sampler_mode, fill_mode, _drag_painting>>

\* on_import_icon.do_import: the record first, then load_icon_as_pixels; a
\* failure of either raises into the handler's except.
ImportPixels(f) ==
  IF RecordPixels(f) # <<>> THEN RecordPixels(f)
  ELSE f.generic

do_import(f) ==
  /\ ~pointer.down
  /\ UNCHANGED pointer
  /\ LET px == ImportPixels(f)
     IN  IF px # <<>> /\ px[1] # <<>>   \* if not pixels or not isinstance(pixels, list): raise
         THEN LET h == _push_undo(_undo_stack, _redo_stack, pixels)
              IN  /\ _undo_stack' = h.undo
                  /\ _redo_stack' = h.redo
                  /\ pixels' = px[1]
                  /\ NoteMutation(Op("do_import", -1, -1, -1, "True", ""))
         ELSE /\ UNCHANGED <<pixels, _undo_stack, _redo_stack>>
              /\ NoteOther(Op("do_import", -1, -1, -1, "False", ""))
  /\ UNCHANGED <<current_color, sampler_mode, fill_mode, _drag_painting>>

\* on_load_png.do_load: a .png through Image.open, a .json through its record.
LoadPngPixels(f) ==
  IF f.ext = "png"
  THEN IF f.bitmap # <<>> THEN <<GridTexts(_image_to_pixels(f.bitmap[1]))>> ELSE <<>>
  ELSE RecordPixels(f)

do_load(f) ==
  /\ ~pointer.down
  /\ UNCHANGED pointer
  /\ LET px == LoadPngPixels(f)
     IN  IF px # <<>>   \* if isinstance(pixels, list)
         THEN /\ pixels' = px[1]
              /\ NoteMutation(Op("do_load", -1, -1, -1, "True", ""))
         ELSE /\ UNCHANGED pixels
              /\ NoteOther(Op("do_load", -1, -1, -1, "False", ""))
  /\ UNCHANGED <<current_color, sampler_mode, fill_mode, _drag_painting, _undo_stack, _redo_stack>>

(***************************************************************************)
(* The editing session: any handler, on inputs from small sets.            *)
(***************************************************************************)
\* int(fill_tolerance_slider.value): the slider's left end and its initial value.
SliderValues == {0, 32}
\* Stamps: None cells are skipped.
Stamps == {DiagonalGrid}

\* The cells the pointer is used on, and a position right of the grid.
PointedCells == {<<0, 0>>, <<1, 0>>, <<size - 1, size - 1>>}

Click == \E c \in PointedCells, t \in SliderValues : nmut < MaxMutations /\ on_click(c[1], c[2], t)
TapDown == \E c \in PointedCells : nmut < MaxMutations /\ _gd_tap_down(c[1], c[2])
PanStart == nmut < MaxMutations /\ _gd_pan_start
PanUpdate == \E c \in PointedCells \cup {<<size, 0>>} :
               /\ IF pointer.painted = 0 THEN nmut < MaxMutations ELSE pointer.painted < MaxDragCells
               /\ _gd_pan_update(c[1], c[2])
PanEnd == _gd_pan_end
TapUp == _gd_tap_up
\* The palette buttons (the transparent one included).
Palette == \E c \in {None, "#FFFFFF", "#000000"} : nmut < MaxMutations /\ palette_click(c)
\* Texts typed into the colour field.
ColorField == \E v \in {"#F0F0F0", "", "#GGG"} : nmut < MaxMutations /\ on_color_change(v)
SamplerToggle == \E v \in BOOLEAN : nmut < MaxMutations /\ on_sampler_toggle(v)
FillToggle == \E v \in BOOLEAN : nmut < MaxMutations /\ on_fill_toggle(v)
Clear == nmut < MaxMutations /\ on_clear
FillInline == \E t \in SliderValues, r \in {"", "#000000"}, tt \in {"", "#FFFFFF"} :
                 nmut < MaxMutations /\ _do_fill_inline(t, r, tt)
Stamp == \E g \in Stamps : nmut < MaxMutations /\ _stamp_pixels(g)
Flip == \E d \in {"horizontal", "vertical"} : nmut < MaxMutations /\ on_flip_image(d)
LoadIcon == \E f \in IconFiles : nmut < MaxMutations /\ load_icon(f)
ImportIcon == \E f \in IconFiles : nmut < MaxMutations /\ do_import(f)
LoadPng == \E f \in IconFiles : nmut < MaxMutations /\ do_load(f)
Undo == on_undo
Redo == on_redo

Next ==
  \/ Click \/ TapDown \/ PanStart \/ PanUpdate \/ PanEnd \/ TapUp
  \/ Palette \/ ColorField \/ SamplerToggle \/ FillToggle
  \/ Clear \/ FillInline \/ Stamp \/ Flip
  \/ LoadIcon \/ ImportIcon \/ LoadPng
  \/ Undo \/ Redo

Spec == Init /\ [][Next]_vars

(***************************************************************************)
(* Sessions of the loaders, with an icon file whose 'pixels' list has one  *)
(* row and one column less than the editor's grid.  The handlers that      *)
(* index the grid are followed only while the grid has the editor's shape. *)
(***************************************************************************)
LoadFiles ==
  LET ShortGrid == [y \in 1..(size - 1) |-> [x \in 1..(size - 1) |-> "#000000"]]
      GreyImage == _pixels_to_image(GridChars(GreyGrid))
  IN  IconFiles
      \cup { [ext |-> "json", is_dict |-> TRUE, pixels |-> <<ShortGrid>>,
               png_base64 |-> "absent", png |-> <<>>, generic |-> <<>>, bitmap |-> <<>>],
             \* 'pixels' and 'png_base64' both there
             [ext |-> "json", is_dict |-> TRUE, pixels |-> <<DiagonalGrid>>,
              png_base64 |-> "ok", png |-> <<GreyImage>>, generic |-> <<>>, bitmap |-> <<>>],
             \* 'pixels' an empty list, 'png_base64' there
             [ext |-> "json", is_dict |-> TRUE, pixels |-> << <<>> >>,
              png_base64 |-> "ok", png |-> <<GreyImage>>, generic |-> <<>>, bitmap |-> <<>>],
             \* a .png that only Image.open can read
             [ext |-> "png", is_dict |-> FALSE, pixels |-> <<>>, png_base64 |-> "absent",
              png |-> <<>>, generic |-> <<>>, bitmap |-> <<GreyImage>>] }

\* size rows of size cells
IsSquare(px) == Len(px) = size /\ \A y \in 1..Len(px) : Len(px[y]) = size

LoadIconAny == \E f \in LoadFiles : nmut < MaxMutations /\ load_icon(f)
ImportIconAny == \E f \in LoadFiles : nmut < MaxMutations /\ do_import(f)
LoadPngAny == \E f \in LoadFiles : nmut < MaxMutations /\ do_load(f)
LoadClear == nmut < MaxMutations /\ on_clear
LoadClick == \E c \in PointedCells : nmut < MaxMutations /\ IsSquare(pixels) /\ on_click(c[1], c[2], 0)
LoadFlip == \E d \in {"horizontal", "vertical"} :
              nmut < MaxMutations /\ IsSquare(pixels) /\ on_flip_image(d)
LoadUndo == on_undo
LoadRedo == on_redo

NextLoad ==
  \/ LoadIconAny \/ ImportIconAny \/ LoadPngAny
  \/ LoadClear \/ LoadClick \/ LoadFlip \/ LoadUndo \/ LoadRedo

SpecLoad == Init /\ [][NextLoad]_vars

(***************************************************************************)
(* A long scripted session, to fill the history up to its limit: mutation  *)
(* number k paints cell ScriptCell(k), toggling it between black and       *)
(* white, by a click on the cell or (every PressEvery-th) by a press on    *)
(* the grid; undo and redo at any time; a mutation with undone snapshots   *)
(* pending only once the history is full.                                  *)
(***************************************************************************)
ScriptCell(k) == <<k % size, (k \div size) % size>>
ScriptColor == LET c == ScriptCell(nmut)
               IN  IF Cell(pixels, c[1], c[2]) = "#000000" THEN "#FFFFFF" ELSE "#000000"
ScriptPress(k) == k % PressEvery = PressEvery - 1

MayMutate ==
  /\ nmut < UndoCap + ExtraMutations
  /\ \/ _redo_stack = <<>>
     \/ Len(_redo_stack) = 1 /\ Len(_undo_stack) + 1 = UndoCap

CapColor == MayMutate /\ current_color # ScriptColor /\ palette_click(ScriptColor)
CapClick == /\ MayMutate /\ current_color = ScriptColor /\ ~ScriptPress(nmut)
            /\ on_click(ScriptCell(nmut)[1], ScriptCell(nmut)[2], 0)
CapPress == /\ MayMutate /\ current_color = ScriptColor /\ ScriptPress(nmut)
            /\ _gd_tap_down(ScriptCell(nmut)[1], ScriptCell(nmut)[2])
CapRelease == _gd_tap_up
CapUndo == on_undo
CapRedo == on_redo

NextCap == CapColor \/ CapClick \/ CapPress \/ CapRelease \/ CapUndo \/ CapRedo

SpecCap == Init /\ [][NextCap]_vars

(***************************************************************************)
(* _flood_fill as a function: any grid of FillGrids, any seed in the grid  *)
(* or just outside it, any target, replacement and tolerance of the sets   *)
(* below; pre_log keeps the grid the call started from.                    *)
(***************************************************************************)
FillGrids == [1..size -> [1..size -> {"#F0F0F0", "#000000"}]]

InitFill ==
  /\ pixels \in FillGrids
  /\ current_color = "#000000"
  /\ sampler_mode = FALSE
  /\ fill_mode = FALSE
  /\ _drag_painting = FALSE
  /\ _undo_stack = <<>>
  /\ _redo_stack = <<>>
  /\ pointer = PointerUp
  /\ op = Op0("init")
  /\ nmut = 0
  /\ pre_log = <<>>
  /\ undone = 0
  /\ before_undo = <<>>
  /\ fill = NoFill
  /\ codec = NoCodec
  /\ batch = NoBatch

FloodFillCall ==
  \E seed \in (Coord \X Coord) \cup {<<-1, 0>>, <<size, 1>>},
     target \in {"#FFFFFF", "#F0F0F0", "#000000", None, ""},
     repl \in {"#FFFFFF", "#000000", None, ""},
     tol \in {-1, 32, 255} :
    /\ op.name = "init"
    /\ pixels' = _flood_fill(pixels, seed[1], seed[2], target, repl, tol)
    /\ op' = Op("_flood_fill", seed[1], seed[2], tol, target, repl)
    /\ pre_log' = <<pixels>>
    /\ UNCHANGED <<current_color, sampler_mode, fill_mode, _drag_painting, _undo_stack,
                   _redo_stack, pointer, nmut, undone, before_undo, fill, codec, batch>>

NextFill == FloodFillCall

SpecFill == InitFill /\ [][NextFill]_vars

(***************************************************************************)
(* _flood_fill step by step: the call, then one action per iteration of    *)
(* "while stack".  fill holds the call's locals, and two logs: every        *)
(* coordinate pushed, and every coordinate whose colour was evaluated.      *)
(***************************************************************************)
InitLoop ==
  /\ pixels \in FillGrids
  /\ current_color = "#000000"
  /\ sampler_mode = FALSE
  /\ fill_mode = FALSE
  /\ _drag_painting = FALSE
  /\ _undo_stack = <<>>
  /\ _redo_stack = <<>>
  /\ pointer = PointerUp
  /\ op = Op0("init")
  /\ nmut = 0
  /\ pre_log = <<>>
  /\ undone = 0
  /\ before_undo = <<>>
  /\ fill = [pc |-> "idle"]
  /\ codec = NoCodec
  /\ batch = NoBatch

LoopFrame == UNCHANGED <<current_color, sampler_mode, fill_mode, _drag_painting, _undo_stack,
                         _redo_stack, pointer, nmut, undone, before_undo, codec, batch>>

\* _flood_fill up to the loop: the clamp, the normalisation, the early return.
flood_fill_enter(sx, sy, target_color, replacement_color, tolerance) ==
  /\ fill.pc = "idle"
  /\ LET tol  == IF tolerance < 0 THEN 0 ELSE tolerance
         repl == IF replacement_color = "" THEN None ELSE replacement_color
         tgt  == IF target_color = "" THEN None ELSE target_color
     IN  fill' = [pc |-> IF repl = tgt THEN "done" ELSE "loop",
                  target |-> tgt, repl |-> repl, tol |-> tol,
                  stack |-> IF repl = tgt THEN <<>> ELSE << <<sx, sy>> >>,
                  visited |-> {},
                  pushed |-> IF repl = tgt THEN <<>> ELSE << <<sx, sy>> >>,
                  evaluated |-> <<>>]
  /\ op' = Op("_flood_fill", sx, sy, tolerance, target_color, replacement_color)
  /\ pre_log' = <<pixels>>
  /\ UNCHANGED pixels
  /\ LoopFrame

\* The loop without its visited set.
flood_fill_iter_NoVisited ==
  /\ fill.pc = "loop"
  /\ UNCHANGED <<op, pre_log>>
  /\ LoopFrame
  /\ IF fill.stack = <<>>
     THEN fill' = [fill EXCEPT !.pc = "done"] /\ UNCHANGED pixels
     ELSE LET top  == Last(fill.stack)
              rest == Front(fill.stack)
              x    == top[1]
              y    == top[2]
              nbrs == << <<x + 1, y>>, <<x - 1, y>>, <<x, y + 1>>, <<x, y - 1>> >>
          IN  IF x < 0 \/ y < 0 \/ x >= size \/ y >= size
              THEN fill' = [fill EXCEPT !.stack = rest] /\ UNCHANGED pixels
              ELSE IF Distance(Cell(pixels, x, y), fill.target) <= fill.tol
              THEN /\ pixels' = SetCell(pixels, x, y, fill.repl)
                   /\ fill' = [fill EXCEPT !.stack = rest \o nbrs,
                                           !.pushed = @ \o nbrs,
                                           !.evaluated = Append(@, top)]
              ELSE /\ fill' = [fill EXCEPT !.stack = rest, !.evaluated = Append(@, top)]
                   /\ UNCHANGED pixels

\* One test of "while stack" and, if the stack is not empty, one iteration.
flood_fill_iter ==
  /\ fill.pc = "loop"
  /\ UNCHANGED <<op, pre_log>>
  /\ LoopFrame
  /\ IF fill.stack = <<>>
     THEN fill' = [fill EXCEPT !.pc = "done"] /\ UNCHANGED pixels
     ELSE LET top  == Last(fill.stack)
              rest == Front(fill.stack)
              x    == top[1]
              y    == top[2]
              nbrs == << <<x + 1, y>>, <<x - 1, y>>, <<x, y + 1>>, <<x, y - 1>> >>
          IN  IF top \in fill.visited
              THEN fill' = [fill EXCEPT !.stack = rest] /\ UNCHANGED pixels
              ELSE IF x < 0 \/ y < 0 \/ x >= size \/ y >= size
              THEN /\ fill' = [fill EXCEPT !.stack = rest, !.visited = @ \cup {top}]
                   /\ UNCHANGED pixels
              ELSE IF Distance(Cell(pixels, x, y), fill.target) <= fill.tol
              THEN /\ pixels' = SetCell(pixels, x, y, fill.repl)
                   /\ fill' = [fill EXCEPT !.stack = rest \o nbrs,
                                           !.visited = @ \cup {top},
                                           !.pushed = @ \o nbrs,
                                           !.evaluated = Append(@, top)]
              ELSE /\ fill' = [fill EXCEPT !.stack = rest, !.visited = @ \cup {top},
                                           !.evaluated = Append(@, top)]
                   /\ UNCHANGED pixels

\* c is <<target_color, replacement_color, tolerance>>
LoopEnter ==
  \E seed \in {<<0, 0>>, <<1, 1>>, <<size, 1>>},
     c \in { <<"#F0F0F0", "#FFFFFF", 32>>, <<"#F0F0F0", "#FFFFFF", -1>>,
          <<"#000000", None, 0>>, <<None, "#000000", 255>>, <<"#000000", "", 32>>,
          <<"#000000", "#000000", 32>> } :
    flood_fill_enter(seed[1], seed[2], c[1], c[2], c[3])
LoopIter == flood_fill_iter

NextLoop == LoopEnter \/ LoopIter

\* The loop is sequential code: once entered it keeps taking its next iteration.
SpecLoop == InitLoop /\ [][NextLoop]_vars /\ WF_vars(LoopIter)

(***************************************************************************)
(* The raster round trip: a grid whose cells are texts a cell can hold     *)
(* (what _image_to_pixels writes, what the colour field accepts, what the  *)
(* fill and stamp dialogs pass on: any text, '' included) goes through     *)
(* _pixels_to_image and _image_to_pixels, twice.  pre_log keeps the grids  *)
(* before each round trip.                                                 *)
(***************************************************************************)
\* The cell values of the grids converted.
RasterCells ==
  { NoneChars, <<>>,
    <<"#", "F", "F", "F", "F", "F", "F">>,
    <<"#", "0", "a", "0", "B", "0", "c">>,
    <<"#", "F", "F", "F">>,
    <<"#", "1", "2", "3", "4", "5", "6", "8", "0">>,
    <<"#", "1", "2", "3", "4", "5", "6", "F", "F">>,
    <<"#", "1", "2", "3", "4", "5", "6", "0", "0">>,
    <<"#", "G", "G", "G">>,
    <<"r", "g", "b", "a", "(", "1", ",", "2", ",", "3", ",", "0", ".", "5", ")">>,
    <<"1", "0", ",", "2", "0", ",", "3", "0">> }

InitRaster ==
  \* One cell value everywhere, but for a second one at a pointed cell.
  /\ pixels \in { [y \in 1..size |-> [x \in 1..size |-> IF <<x - 1, y - 1>> = c THEN b ELSE a]] :
                    a \in RasterCells, b \in RasterCells, c \in PointedCells }
  /\ current_color = "#000000"
  /\ sampler_mode = FALSE
  /\ fill_mode = FALSE
  /\ _drag_painting = FALSE
  /\ _undo_stack = <<>>
  /\ _redo_stack = <<>>
  /\ pointer = PointerUp
  /\ op = Op0("init")
  /\ nmut = 0
  /\ pre_log = <<>>
  /\ undone = 0
  /\ before_undo = <<>>
  /\ fill = NoFill
  /\ codec = NoCodec
  /\ batch = NoBatch

\* pixels = _image_to_pixels(_pixels_to_image(pixels)), as on_flip_image and
\* the other image transforms do around their transform.
RoundTrip ==
  /\ Len(pre_log) < 2
  /\ pixels' = _image_to_pixels(_pixels_to_image(pixels))
  /\ pre_log' = Append(pre_log, pixels)
  /\ op' = Op0("round_trip")
  /\ UNCHANGED <<current_color, sampler_mode, fill_mode, _drag_painting, _undo_stack,
                 _redo_stack, pointer, nmut, undone, before_undo, fill, codec, batch>>

NextRaster == RoundTrip

SpecRaster == InitRaster /\ [][NextRaster]_vars

(***************************************************************************)
(* The codec on one text: _hex_to_rgba(text) (alpha defaults to 255), then *)
(* the text _image_to_pixels writes for the components.  codec holds the   *)
(* text, what kind of text it is, and for a list of numbers the numbers    *)
(* it was written from.                                                    *)
(***************************************************************************)
\* str(n) for n >= 0
RECURSIVE DecChars(_)
DecChars(n) == IF n < 10 THEN <<HexDigits[n + 1]>> ELSE Append(DecChars(n \div 10), HexDigits[(n % 10) + 1])

\* sep.join(str(n) for n in comps)
RECURSIVE Join(_, _)
Join(comps, sep) ==
  IF Len(comps) = 1 THEN DecChars(comps[1])
  ELSE DecChars(comps[1]) \o sep \o Join(Tail(comps), sep)

\* The texts decoded: '#RRGGBB' over three digits and '#RRGGBBAA' over two
\* digits and four alpha digits; lists of three and four numbers joined by
\* ',', ' ' and ', '; and texts of the other forms.
CodecInputs ==
  LET HexTexts ==
        { <<"#">> \o d : d \in [1..6 -> {"0", "a", "F"}] }
        \cup { <<"#">> \o d \o al : d \in [1..6 -> {"1", "e"}], al \in [1..2 -> {"0", "8", "f", "F"}] }
      NumberSamples == {0, 7, 10, 255}
      Separators == { <<",">>, <<" ">>, <<",", " ">> }
      NumberLists == [1..3 -> NumberSamples] \cup [1..4 -> NumberSamples]
      OtherTexts ==
        { NoneChars, <<>>, <<"#", "F", "F", "F">>, <<"#", "a", "b", "c", "d">>, <<"#", "G", "G", "G">>, <<"r", "g", "b", "a", "(", "1", ",", "2", ",", "3", ",", "0", ".", "5", ")">>, <<"R", "G", "B", "A", "(", "1", "0", ",", " ", "2", "0", ",", " ", "3", "0", ")">>, <<"r", "g", "b", "a", "(", "1", ",", "2", ",", "3", ",", "7", ")">>, <<"r", "g", "b", "a">>, <<"1", ",", "2">>, <<" ", "#", "0", "a", "0", "B", "0", "c", " ">> }
      \* Texts of none of the accepted forms: None, '', non-hex digits, wrong
      \* lengths, fewer than three numbers.
      InvalidTexts ==
        { NoneChars, <<>>, <<"#", "G", "G", "G">>,
          <<"#", "G", "G", "G", "G", "G", "G">>,
          <<"#", "1", "2", "3", "4", "5", "G">>,
          <<"#", "1", "2", "3", "4", "5">>,
          <<"#", "1", "2", "3", "4", "5", "6", "7">>,
          <<"f", "f">>,
          <<"1", ",", "2">>,
          <<"5">>,
          <<"r", "g", "b", "a">>,
          <<"r", "g", "b", "a", "(", "1", ",", "2", ")">>,
          <<"+", "f", "+", "f", "+", "f">>,
          <<"-", "1", "-", "1", "-", "1">>,
          <<"a", " ", "b", " ", " ", "c">>,
          <<"#", "+", "1", "+", "2", "+", "3", "F", "F">> }
  IN  { [pc |-> "text", kind |-> "hex", text |-> t, comps |-> <<>>] : t \in HexTexts }
      \cup { [pc |-> "text", kind |-> "invalid", text |-> t, comps |-> <<>>] : t \in InvalidTexts }
      \cup { [pc |-> "text", kind |-> "numbers", text |-> Join(c, sep), comps |-> c] :
               c \in NumberLists, sep \in Separators }
      \cup { [pc |-> "text", kind |-> "other", text |-> t, comps |-> <<>>] : t \in OtherTexts }

InitCodec ==
  /\ pixels = Filled("#FFFFFF")
  /\ current_color = "#000000"
  /\ sampler_mode = FALSE
  /\ fill_mode = FALSE
  /\ _drag_painting = FALSE
  /\ _undo_stack = <<>>
  /\ _redo_stack = <<>>
  /\ pointer = PointerUp
  /\ op = Op0("init")
  /\ nmut = 0
  /\ pre_log = <<>>
  /\ undone = 0
  /\ before_undo = <<>>
  /\ fill = NoFill
  /\ codec \in CodecInputs
  /\ batch = NoBatch

\* r, g, b, a = self._hex_to_rgba(text)
Decode ==
  /\ codec.pc = "text"
  /\ codec' = [pc |-> "decoded", kind |-> codec.kind, text |-> codec.text, comps |-> codec.comps,
               rgba |-> _hex_to_rgba(codec.text, 255)]
  /\ UNCHANGED <<pixels, current_color, sampler_mode, fill_mode, _drag_painting,
                  _undo_stack, _redo_stack, pointer, op, nmut, pre_log, undone,
                  before_undo, fill, batch>>

\* The cell _image_to_pixels writes for a pixel of these components (channels
\* of an image are in 0..255).
Encode ==
  /\ codec.pc = "decoded"
  /\ \A i \in 1..4 : codec.rgba[i] \in 0..255
  /\ codec' = [pc |-> "encoded", kind |-> codec.kind, text |-> codec.text, comps |-> codec.comps,
               rgba |-> codec.rgba, out |-> EncodePixel(codec.rgba)]
  /\ UNCHANGED <<pixels, current_color, sampler_mode, fill_mode, _drag_painting,
                  _undo_stack, _redo_stack, pointer, op, nmut, pre_log, undone,
                  before_undo, fill, batch>>

NextCodec == Decode \/ Encode

SpecCodec == InitCodec /\ [][NextCodec]_vars

(***************************************************************************)
(* _color_distance on one pair of colours, called in both orders.  A       *)
(* colour is None or the text written from three components, with or       *)
(* without alpha digits; codec holds the pair and the two results.         *)
(***************************************************************************)
DistanceInputs ==
  LET Samples == {0, 10, 128, 255}
      Colours ==
        { [rgb |-> <<>>, text |-> NoneChars] }
        \cup { [rgb |-> c, text |-> <<"#">> \o HexByte(c[1]) \o HexByte(c[2]) \o HexByte(c[3]) \o al] :
                 c \in [1..3 -> Samples], al \in {<<>>, <<"8", "0">>} }
  IN  { [pc |-> "pair", c1 |-> a, c2 |-> b] : a \in Colours, b \in Colours }

InitDistance ==
  /\ pixels = Filled("#FFFFFF")
  /\ current_color = "#000000"
  /\ sampler_mode = FALSE
  /\ fill_mode = FALSE
  /\ _drag_painting = FALSE
  /\ _undo_stack = <<>>
  /\ _redo_stack = <<>>
  /\ pointer = PointerUp
  /\ op = Op0("init")
  /\ nmut = 0
  /\ pre_log = <<>>
  /\ undone = 0
  /\ before_undo = <<>>
  /\ fill = NoFill
  /\ codec \in DistanceInputs
  /\ batch = NoBatch

\* d = self._color_distance(c1, c2); back = self._color_distance(c2, c1)
MeasureDistance ==
  /\ codec.pc = "pair"
  /\ codec' = [pc |-> "measured", c1 |-> codec.c1, c2 |-> codec.c2,
               d |-> _color_distance(codec.c1.text, codec.c2.text),
               back |-> _color_distance(codec.c2.text, codec.c1.text)]
  /\ UNCHANGED <<pixels, current_color, sampler_mode, fill_mode, _drag_painting,
                 _undo_stack, _redo_stack, pointer, op, nmut, pre_log, undone,
                 before_undo, fill, batch>>

SpecDistance == InitDistance /\ [][MeasureDistance]_vars

(***************************************************************************)
(* Stamping: images stamped at offsets inside and outside the grid,        *)
(* between clicks in palette colours and undos.                            *)
(***************************************************************************)
\* The stamp images: a small one and one of the grid's size.
StampImages == { << <<"#000000", None>>, <<None, "#F0F0F0">> >>, DiagonalGrid }
StampOffsets == {-1, 0, 1, size}

StampAt ==
  \E src \in StampImages, ox \in StampOffsets, oy \in StampOffsets, opaque_only \in BOOLEAN :
    nmut < MaxMutations /\ do_stamp(src, ox, oy, opaque_only)

SpecStamp == Init /\ [][StampAt \/ Palette \/ Click \/ Undo]_vars

(***************************************************************************)
(* The MP3 script's main (yotofy_folder_with_album_art.py): the loop over  *)
(* the folder's .mp3 files.  A file is the rank of its name among all      *)
(* names, so that names compare as numbers.  batch holds the list as       *)
(* glob returned it, the sorted list, the loop's position, the last        *)
(* icon_id, and the log of upload calls, returns and exceptions.  The      *)
(* uploads are calls of a library outside the repository: each returns     *)
(* (the icon upload with any media id) or raises.                          *)
(***************************************************************************)
\* The list as found in the folder.
sort_AsListed(files) == files

\* mp3_files.sort()
sort(files) == SortSeq(files, LAMBDA a, b : a < b)

\* mp3_files = list(folder.glob("*.mp3")), not empty, in any order; sorted.
InitBatch ==
  /\ pixels = Filled("#FFFFFF")
  /\ current_color = "#000000"
  /\ sampler_mode = FALSE
  /\ fill_mode = FALSE
  /\ _drag_painting = FALSE
  /\ _undo_stack = <<>>
  /\ _redo_stack = <<>>
  /\ pointer = PointerUp
  /\ op = Op0("init")
  /\ nmut = 0
  /\ pre_log = <<>>
  /\ undone = 0
  /\ before_undo = <<>>
  /\ fill = NoFill
  /\ codec = NoCodec
  /\ \E n \in 1..MaxFiles : \E listed \in [1..n -> 1..MaxFiles] :
       /\ \A i, j \in 1..n : listed[i] = listed[j] => i = j
       /\ batch = [pc |-> "file", listed |-> listed, mp3_files |-> sort(listed), i |-> 1,
                   icon_id |-> 0, log |-> <<>>]

\* The loop body up to the call api.upload_custom_icon(track_image_file): the
\* album art is extracted (extract_album_art never raises) or the image file
\* is found.
upload_custom_icon_call ==
  /\ batch.pc = "file"
  /\ batch' = [batch EXCEPT !.pc = "icon",
                            !.log = Append(@, [e |-> "icon_call", f |-> batch.mp3_files[batch.i], id |-> 0])]
  /\ UNCHANGED <<pixels, current_color, sampler_mode, fill_mode, _drag_painting,
                 _undo_stack, _redo_stack, pointer, op, nmut, pre_log, undone,
                 before_undo, fill, codec>>

\* icon_id = response['mediaId']
upload_custom_icon_return ==
  /\ batch.pc = "icon"
  /\ \E media \in {1, 2} :
       batch' = [batch EXCEPT !.pc = "icon_done", !.icon_id = media,
                              !.log = Append(@, [e |-> "icon_return", f |-> batch.mp3_files[batch.i], id |-> media])]
  /\ UNCHANGED <<pixels, current_color, sampler_mode, fill_mode, _drag_painting,
                 _undo_stack, _redo_stack, pointer, op, nmut, pre_log, undone,
                 before_undo, fill, codec>>

\* api.upload_audio_to_existing_card(file_path, card_id=CARD_ID, icon_uri=f"yoto:#{icon_id}")
upload_audio_call ==
  /\ batch.pc = "icon_done"
  /\ batch' = [batch EXCEPT !.pc = "audio",
                            !.log = Append(@, [e |-> "audio_call", f |-> batch.mp3_files[batch.i], id |-> batch.icon_id])]
  /\ UNCHANGED <<pixels, current_color, sampler_mode, fill_mode, _drag_painting,
                 _undo_stack, _redo_stack, pointer, op, nmut, pre_log, undone,
                 before_undo, fill, codec>>

\* The audio upload returns; the loop goes to the next file or ends.
upload_audio_return ==
  /\ batch.pc = "audio"
  /\ batch' = [batch EXCEPT !.pc = IF batch.i < Len(batch.mp3_files) THEN "file" ELSE "done",
                            !.i = @ + 1,
                            !.log = Append(@, [e |-> "audio_return", f |-> batch.mp3_files[batch.i], id |-> batch.icon_id])]
  /\ UNCHANGED <<pixels, current_color, sampler_mode, fill_mode, _drag_painting,
                 _undo_stack, _redo_stack, pointer, op, nmut, pre_log, undone,
                 before_undo, fill, codec>>

\* An exception leaves the loop and main: the ValueError for a missing image,
\* or whatever an upload raises (a response without 'mediaId' included).
raise_exception ==
  /\ batch.pc \in {"file", "icon", "audio"}
  /\ batch' = [batch EXCEPT !.pc = "raised",
                            !.log = Append(@, [e |-> "raise", f |-> batch.mp3_files[batch.i], id |-> 0])]
  /\ UNCHANGED <<pixels, current_color, sampler_mode, fill_mode, _drag_painting,
                 _undo_stack, _redo_stack, pointer, op, nmut, pre_log, undone,
                 before_undo, fill, codec>>

SpecBatch ==
  InitBatch /\ [][\/ upload_custom_icon_call \/ upload_custom_icon_return
                  \/ upload_audio_call \/ upload_audio_return \/ raise_exception]_vars

(***************************************************************************)
(* Properties of the history.                                              *)
(***************************************************************************)
\* What the undo stack is to hold after one snapshot g is pushed onto us.
ExpectedPush(us, g) ==
  IF Len(us) >= UndoCap THEN SubSeq(us, 2, Len(us)) \o <<g>> ELSE us \o <<g>>

\* C1: every operation that changes the pixel grid, other than undo and redo,
\* pushes the grid as it was immediately before the operation onto the undo
\* stack, once per user action (the cells of a drag after the first belong to
\* the action of the first).
C1_MutationPushesSnapshot ==
  [][(pixels' # pixels /\ op'.name \notin {"on_undo", "on_redo"} /\ ~(pointer.down /\ pointer.painted > 0))
       => _undo_stack' = ExpectedPush(_undo_stack, pixels)]_vars

\* C2: a drag-paint gesture that has painted at least one cell has pushed exactly
\* one snapshot, the grid as it was when the gesture started.
C2_DragPushesOneSnapshot ==
  (pointer.down /\ pointer.painted > 0)
    => _undo_stack = ExpectedPush(pointer.undo0, pointer.grid0)

\* C3: after k mutations (k <= 50) and then k calls of on_undo, the grid is the
\* grid that existed before the first of the k mutations.
C3_UndoReturnsToStart ==
  (undone > 0 /\ undone <= Len(pre_log) /\ undone <= UndoCap)
    => pixels = pre_log[Len(pre_log) - undone + 1]

\* C4: on_undo with a non-empty undo stack, directly followed by on_redo, leaves
\* the grid, the undo stack and the redo stack as they were before the on_undo.
C4_UndoThenRedoRestores ==
  (op.name = "on_redo" /\ op.c1 # "noop" /\ before_undo # <<>>)
    => <<pixels, _undo_stack, _redo_stack>> = before_undo

\* An on_undo/on_redo pair has run with snapshots left on both stacks.
C4_Witness ==
  /\ op.name = "on_redo" /\ op.c1 # "noop" /\ before_undo # <<>>
  /\ Len(_undo_stack) >= 1 /\ Len(_redo_stack) >= 1
  /\ pixels # _undo_stack[Len(_undo_stack)] /\ pixels # _redo_stack[Len(_redo_stack)]

\* C5: after a mutation that is not an undo or redo, the redo stack is empty.
C5_MutationClearsRedo ==
  [][nmut' # nmut => _redo_stack' = <<>>]_vars

\* C6: on_undo with an empty undo stack and on_redo with an empty redo stack
\* leave the grid and both stacks unchanged.
C6_EmptyStackNoOp ==
  [][((on_undo /\ _undo_stack = <<>>) \/ (on_redo /\ _redo_stack = <<>>))
       => UNCHANGED <<pixels, _undo_stack, _redo_stack>>]_vars

\* on_undo has just run on an empty undo stack, in a session that has a redo
\* history and a changed grid.
C6_Witness ==
  /\ op.name = "on_undo" /\ op.c1 = "noop"
  /\ _undo_stack = <<>> /\ _redo_stack # <<>> /\ pixels = Filled("#FFFFFF") /\ nmut > 0

\* C7: on_undo with a non-empty undo stack appends the current grid to the redo
\* stack, makes the newest undo snapshot the grid and removes it from the undo
\* stack, the other entries staying; on_redo does the same with the two stacks
\* swapped.
C7_UndoRedoMoveOneSnapshot ==
  [][/\ (on_undo /\ _undo_stack # <<>>)
          => /\ _redo_stack' = Append(_redo_stack, pixels)
             /\ pixels' = _undo_stack[Len(_undo_stack)]
             /\ _undo_stack' = SubSeq(_undo_stack, 1, Len(_undo_stack) - 1)
     /\ (on_redo /\ _redo_stack # <<>>)
          => /\ _undo_stack' = Append(_undo_stack, pixels)
             /\ pixels' = _redo_stack[Len(_redo_stack)]
             /\ _redo_stack' = SubSeq(_redo_stack, 1, Len(_redo_stack) - 1)]_vars

\* on_undo has run with two snapshots on the undo stack: one is left there, the
\* grid it replaced is on the redo stack, and the three grids all differ.
C7_Witness ==
  /\ op.name = "on_undo" /\ op.c1 # "noop"
  /\ Len(_undo_stack) = 1 /\ Len(_redo_stack) = 1
  /\ pixels # _undo_stack[1] /\ pixels # _redo_stack[1] /\ _undo_stack[1] # _redo_stack[1]

(***************************************************************************)
(* Properties of the history's limit (SpecCap).                            *)
(***************************************************************************)
\* C8: both history stacks are bounded in every reachable state: at most 50
\* snapshots on the undo stack and at most 50 on the redo stack.
C8_StacksBounded ==
  Len(_undo_stack) <= UndoCap /\ Len(_redo_stack) <= UndoCap

\* on_redo has just appended the 50th snapshot to the undo stack, after more
\* than 50 snapshots were pushed in the session.
C8_Witness ==
  /\ op.name = "on_redo" /\ op.c1 # "noop"
  /\ Len(_undo_stack) = UndoCap
  /\ nmut > UndoCap + 1

\* C9: a push onto a full undo stack (50 snapshots) drops exactly the oldest
\* snapshot and appends the new one after the other 49, in their order; and so,
\* after more than 50 mutations, 50 undos give the grid from before the 50th
\* most recent mutation.
C9_CapDropsOldest ==
  [][/\ (Len(_undo_stack) = UndoCap /\ _undo_stack' # _undo_stack /\ nmut' # nmut)
          => _undo_stack' = SubSeq(_undo_stack, 2, UndoCap) \o <<pixels>>
     /\ (Len(pre_log') > UndoCap /\ undone' = UndoCap)
          => pixels' = pre_log'[Len(pre_log') - UndoCap + 1]]_vars

(***************************************************************************)
(* Properties of the flood fill (SpecFill).                                *)
(***************************************************************************)
\* '' stands for None.
Norm(c) == IF c = "" THEN None ELSE c

\* The cells of grid g within tolerance tol (at least 0) of the target.
Matching(g, target, tol) ==
  {c \in Coord \X Coord :
     Distance(Cell(g, c[1], c[2]), target) <= (IF tol < 0 THEN 0 ELSE tol)}

Adjacent4(c, d) ==
  \/ c[1] = d[1] /\ (c[2] = d[2] + 1 \/ d[2] = c[2] + 1)
  \/ c[2] = d[2] /\ (c[1] = d[1] + 1 \/ d[1] = c[1] + 1)

\* The cells of M joined to a cell of S by a path of 4-adjacent cells of M.
RECURSIVE Joined(_, _)
Joined(S, M) ==
  LET S2 == S \cup {c \in M : \E d \in S : Adjacent4(c, d)}
  IN  IF S2 = S THEN S ELSE Joined(S2, M)

\* The 4-connected component of matching cells that holds the seed.
Component(g, seed, target, tol) ==
  IF seed \in Matching(g, target, tol) THEN Joined({seed}, Matching(g, target, tol)) ELSE {}

\* C10: after _flood_fill(sx, sy, target, repl, tol) with repl # target ('' read
\* as None), every cell of the seed's 4-connected component of cells whose
\* original colour is within max(tol, 0) of the target equals repl, and every
\* other cell has its original value.
C10_FloodFillContainment ==
  (op.name = "_flood_fill" /\ Norm(op.c2) # Norm(op.c1))
    => LET comp == Component(pre_log[1], <<op.x, op.y>>, Norm(op.c1), op.t)
       IN  \A c \in Coord \X Coord :
             Cell(pixels, c[1], c[2]) =
               IF c \in comp THEN Norm(op.c2) ELSE Cell(pre_log[1], c[1], c[2])

\* A fill with a negative tolerance has changed a component of at least two
\* cells, and left a matching cell that touches the component only diagonally
\* or across the grid's edge.
C10_Witness ==
  /\ op.name = "_flood_fill" /\ Norm(op.c2) # Norm(op.c1) /\ op.t < 0
  /\ LET comp == Component(pre_log[1], <<op.x, op.y>>, Norm(op.c1), op.t)
         rest == Matching(pre_log[1], Norm(op.c1), op.t) \ comp
     IN  /\ Cardinality(comp) >= 2
         /\ \E c \in rest : Cell(pixels, c[1], c[2]) = Cell(pre_log[1], c[1], c[2])
         /\ \E c \in rest, d \in comp : c[1] # d[1] /\ c[2] # d[2]
         /\ \E c \in rest, d \in comp : c[1] = 0 /\ d[1] = size - 1 /\ c[2] = d[2]

(***************************************************************************)
(* Properties of the flood fill's loop (SpecLoop).                         *)
(***************************************************************************)
\* How many times coordinate c occurs in the log.
EvaluatedOnce ==
  fill.pc \in {"loop", "done"} => \A i, j \in 1..Len(fill.evaluated) :
                                    fill.evaluated[i] = fill.evaluated[j] => i = j

\* C11: _flood_fill terminates (every call that enters the loop leaves it),
\* also when the replacement colour is within tolerance of the target, and no
\* cell coordinate has its colour evaluated more than once, however often it
\* was pushed on the stack.
C11_FloodFillTerminates ==
  []EvaluatedOnce /\ ((fill.pc = "loop") ~> (fill.pc = "done"))

\* A call whose replacement is within tolerance of its target has returned; it
\* evaluated several cells, one of them pushed at least three times, and left
\* the grid _flood_fill computes.
C11_Witness ==
  /\ fill.pc = "done" /\ Len(fill.evaluated) >= 4
  /\ Distance(fill.repl, fill.target) <= fill.tol
  /\ \E i \in 1..Len(fill.evaluated) : Cardinality({k \in 1..Len(fill.pushed) : fill.pushed[k] = fill.evaluated[i]}) >= 3
  /\ pixels = _flood_fill(pre_log[1], op.x, op.y, op.c1, op.c2, op.t)

(***************************************************************************)
(* More properties of the flood fill (SpecFill).                           *)
(***************************************************************************)
\* The seed of the last call is a cell of the grid.
SeedInGrid == op.x \in Coord /\ op.y \in Coord

\* The seed cell's original colour is within the clamped tolerance of the target.
SeedMatches == <<op.x, op.y>> \in Matching(pre_log[1], Norm(op.c1), op.t)

\* C12: if the seed cell's colour is not within tolerance of the target,
\* _flood_fill changes no cell: the seed is tested like every other cell.
C12_SeedMismatchNoChange ==
  (op.name = "_flood_fill" /\ SeedInGrid /\ ~SeedMatches) => pixels = pre_log[1]

\* A fill with different colours from a seed that does not match, on a grid
\* where a cell next to the seed does match.
C12_Witness ==
  /\ op.name = "_flood_fill" /\ SeedInGrid /\ ~SeedMatches
  /\ Norm(op.c2) # Norm(op.c1)
  /\ \E c \in Matching(pre_log[1], Norm(op.c1), op.t) : Adjacent4(c, <<op.x, op.y>>)

\* C13: when the replacement equals the target ('' read as None), _flood_fill
\* writes no cell, for every seed and tolerance.
C13_EqualColoursNoOp ==
  (op.name = "_flood_fill" /\ Norm(op.c2) = Norm(op.c1)) => pixels = pre_log[1]

\* A call with replacement '' and target None, or both white, from a matching
\* seed on a grid where the matching cells are not of the replacement colour.
C13_Witness ==
  /\ op.name = "_flood_fill" /\ Norm(op.c2) = Norm(op.c1) /\ op.c2 # op.c1
  /\ SeedInGrid /\ SeedMatches
  /\ Cell(pre_log[1], op.x, op.y) # Norm(op.c2)

\* C14: the fill is idempotent: a fill of a region (the seed's component of
\* matching cells) that already has the replacement colour leaves the grid as
\* it was, and a second _flood_fill with the same arguments leaves the grid as
\* the first one left it.
C14_FloodFillIdempotent ==
  op.name = "_flood_fill" =>
    /\ LET comp == Component(pre_log[1], <<op.x, op.y>>, Norm(op.c1), op.t)
       IN  (\A c \in comp : Cell(pre_log[1], c[1], c[2]) = Norm(op.c2)) => pixels = pre_log[1]
    /\ _flood_fill(pixels, op.x, op.y, op.c1, op.c2, op.t) = pixels

\* The first fill changed the grid, the replacement is itself within tolerance
\* of the target (the second fill evaluates the filled cells as matching), and
\* a cell outside the filled region was left alone.
C14_Witness ==
  /\ op.name = "_flood_fill" /\ pixels # pre_log[1]
  /\ Distance(Norm(op.c2), Norm(op.c1)) <= op.t
  /\ \E c \in Coord \X Coord : Cell(pixels, c[1], c[2]) # Norm(op.c2)

(***************************************************************************)
(* Properties of the grid's shape (SpecLoad) and of its cells (Spec).      *)
(***************************************************************************)
\* C15: in every reachable state the grid has exactly size rows of exactly
\* size cells; a loaded grid of another shape is rejected, the grid unchanged.
C15_GridStaysSquare == IsSquare(pixels)

\* C16: in every reachable state every cell is None or a valid colour encoding,
\* whatever text was typed into a colour field before painting or filling.
C16_CellsValid ==
  \A y \in 1..size, x \in 1..size :
    pixels[y][x] = None \/ ValidEncoding(Chars(pixels[y][x]))

(***************************************************************************)
(* Properties of the raster round trip (SpecRaster).                       *)
(***************************************************************************)
\* C17: a grid that already has the editor's size comes back identical, cell
\* for cell, from _image_to_pixels(_pixels_to_image(grid)), for every cell
\* value the editor can store (here: already for the grids whose cells are all
\* None or '#RRGGBB' / '#RRGGBBAA' with hexadecimal digits).
C17_RoundTripIdentity ==
  (/\ Len(pre_log) >= 1
   /\ \A y \in 1..size, x \in 1..size :
        pre_log[1][y][x] = NoneChars \/ ValidEncoding(pre_log[1][y][x]))
    => (IF Len(pre_log) = 1 THEN pixels ELSE pre_log[2]) = pre_log[1]

\* C18: R(grid) = _image_to_pixels(_pixels_to_image(grid)) is idempotent:
\* R(R(grid)) = R(grid); in R(grid) a None cell is None again, and every other
\* cell is None (alpha 0), 6-digit hex (alpha 255) or 8-digit hex.
C18_RoundTripIdempotent ==
  /\ Len(pre_log) = 2 => pixels = pre_log[2]
  /\ Len(pre_log) >= 1 =>
       \A y \in 1..size, x \in 1..size :
         LET before == pre_log[1][y][x]
             after  == (IF Len(pre_log) = 1 THEN pixels ELSE pre_log[2])[y][x]
             p      == _pixels_to_image(pre_log[1])[y][x]
         IN  /\ before = NoneChars => p[4] = 0 /\ after = NoneChars
             /\ after = NoneChars <=> p[4] = 0
             /\ p[4] = 255 <=> Len(after) = 7
             /\ p[4] \notin {0, 255} <=> Len(after) = 9

\* Two round trips were made of a grid that the first one changed, and the
\* grid holds a None cell, a 6-digit cell or an 8-digit cell next to another.
C18_Witness ==
  /\ Len(pre_log) = 2 /\ pre_log[2] # pre_log[1]
  /\ \E y \in 1..size, x \in 1..size : Len(pixels[y][x]) = 9
  /\ \E y \in 1..size, x \in 1..size : Len(pixels[y][x]) = 7 /\ pre_log[1][y][x] # pixels[y][x]

(***************************************************************************)
(* Properties of the codec (SpecCodec).                                    *)
(***************************************************************************)
\* The digits of a hex text in upper case, the alpha digits dropped when they
\* are FF.
Normalize(t) ==
  LET u == [i \in 1..Len(t) |-> IF i = 1 THEN "#" ELSE HexDigits[HexVal(t[i]) + 1]]
  IN  IF Len(u) = 9 /\ SubSeq(u, 8, 9) = <<"F", "F">> THEN SubSeq(u, 1, 7) ELSE u

\* C19 as stated: for every valid hex text s of length 7 or 9,
\* encode(decode(s)) = normalize(s): upper-case digits, the alpha digits
\* dropped when alpha is 255 and kept otherwise.
C19_EncodeDecodeNormalizes ==
  (codec.pc = "encoded" /\ codec.kind = "hex") => codec.out = Normalize(codec.text)

\* C19 amended: for every valid hex text s of length 7 or 9, encode(decode(s))
\* is None when s has length 9 and alpha digits 00, and normalize(s) otherwise:
\* upper-case digits, the alpha digits dropped when alpha is 255 and kept when
\* alpha is between 1 and 254.
C19_EncodeDecodeNormalizesOrNone ==
  (codec.pc = "encoded" /\ codec.kind = "hex") =>
     codec.out = IF Len(codec.text) = 9 /\ SubSeq(codec.text, 8, 9) = <<"0", "0">>
                 THEN NoneChars ELSE Normalize(codec.text)

\* A 9-character text with lower-case digits and a partial alpha has been
\* decoded and encoded: the alpha digits are kept, in upper case.
C19_Witness ==
  /\ codec.pc = "encoded" /\ codec.kind = "hex" /\ Len(codec.text) = 9
  /\ codec.rgba[4] \notin {0, 255}
  /\ Len(codec.out) = 9 /\ codec.out # codec.text

\* C20: for every comma- or space-separated list of three or four integers in
\* 0..255, whatever the length of the text, _hex_to_rgba returns exactly those
\* numbers (alpha 255 for three).
C20_NumberListsDecoded ==
  (codec.pc \in {"decoded", "encoded"} /\ codec.kind = "numbers") =>
     codec.rgba = IF Len(codec.comps) = 3 THEN Append(codec.comps, 255) ELSE codec.comps

\* C21: _hex_to_rgba never raises, and for every text of none of the accepted
\* forms (None, empty, wrong length, non-hex digits, fewer than three numbers)
\* with the default alpha it returns opaque black (0, 0, 0, 255).
C21_InvalidTextsAreBlack ==
  (codec.pc \in {"decoded", "encoded"} /\ codec.kind = "invalid") => codec.rgba = <<0, 0, 0, 255>>

C23_FirstUsableSourceLoaded ==
  [][\A f \in LoadFiles :
       LET record  == f.ext = "json" /\ f.is_dict
           grid    == IF record /\ f.pixels # <<>> /\ f.pixels[1] # <<>> THEN f.pixels ELSE <<>>
           png     == IF record /\ f.png_base64 = "ok"
                      THEN <<GridTexts(_image_to_pixels(f.png[1]))>> ELSE <<>>
           opened  == IF f.bitmap # <<>> THEN <<GridTexts(_image_to_pixels(f.bitmap[1]))>> ELSE <<>>
           First(a, b, c) == IF a # <<>> THEN a ELSE IF b # <<>> THEN b ELSE c
           Loaded(src) == IF src # <<>> THEN pixels' = src[1] ELSE pixels' = pixels
       IN  /\ load_icon(f) => Loaded(First(grid, png, First(f.generic, opened, <<>>)))
           /\ do_import(f) => Loaded(First(grid, png, f.generic))]_vars

\* C24: when load_icon cannot obtain pixel data, because the source cannot be
\* decoded by any path, it returns False and leaves the pixel grid, the undo
\* stack and the redo stack unchanged.
C24_FailedLoadChangesNothing ==
  [][\A f \in LoadFiles :
       (/\ load_icon(f)
        /\ ~(f.ext = "json" /\ f.is_dict /\ f.pixels # <<>> /\ f.pixels[1] # <<>>)
        /\ ~(f.ext = "json" /\ f.is_dict /\ f.png_base64 = "ok")
        /\ f.generic = <<>> /\ f.bitmap = <<>>)
       => /\ op'.c1 = "False"
          /\ pixels' = pixels
          /\ _undo_stack' = _undo_stack
          /\ _redo_stack' = _redo_stack]_vars

\* load_icon has returned False on an edited grid with a snapshot on a stack.
C24_Witness ==
  /\ op.name = "load_icon" /\ op.c1 = "False"
  /\ IsSquare(pixels) /\ pixels # Filled("#FFFFFF")
  /\ Len(_undo_stack) + Len(_redo_stack) > 0

(***************************************************************************)
(* Properties of stamping (SpecStamp).                                     *)
(***************************************************************************)
\* C25: a stamp pushes exactly one undo snapshot, the grid before the stamp;
\* it then sets exactly the cells under a non-None cell of the stamp to the
\* stamp's value and leaves every other cell as it was, so no cell becomes
\* transparent; stamp cells that the offset moves outside the grid are
\* dropped, not wrapped.
C25_StampOverlaysNonNone ==
  [][\A src \in StampImages, ox \in StampOffsets, oy \in StampOffsets, opaque_only \in BOOLEAN :
       do_stamp(src, ox, oy, opaque_only) =>
         /\ _undo_stack' = Append(_undo_stack, pixels)
         /\ \A x \in Coord, y \in Coord :
              LET covered == /\ x - ox \in 0..(Len(src[1]) - 1)
                             /\ y - oy \in 0..(Len(src) - 1)
                             /\ src[y - oy + 1][x - ox + 1] # None
              IN  /\ covered => Cell(pixels', x, y) = src[y - oy + 1][x - ox + 1]
                  /\ ~covered => Cell(pixels', x, y) = Cell(pixels, x, y)
         /\ \A x \in Coord, y \in Coord : Cell(pixels', x, y) = None => Cell(pixels, x, y) = None]_vars

\* A stamp has changed some cells and left others, on a grid with a
\* transparent cell that is still transparent.
C25_Witness ==
  /\ op.name = "_stamp_pixels"
  /\ _undo_stack # <<>>
  /\ \E x \in Coord, y \in Coord : Cell(pixels, x, y) # Cell(Last(_undo_stack), x, y)
  /\ \E x \in Coord, y \in Coord :
       Cell(pixels, x, y) = None /\ Cell(Last(_undo_stack), x, y) = None
  /\ Len(_undo_stack) > 1

(***************************************************************************)
(* Properties of the fill and sampler tools (Spec).                        *)
(***************************************************************************)
\* C26: the inline Fill Similar action pushes one undo snapshot and then
\* replaces every cell, connected or not, whose distance to the target colour
\* is at most the value shown on the fill-tolerance slider, leaving every
\* other cell unchanged; with the slider at 0 only cells at distance 0 from
\* the target are replaced.
C26_InlineFillWithinSlider ==
  [][\A slider \in SliderValues, r \in {"", "#000000"}, tt \in {"", "#FFFFFF"} :
       _do_fill_inline(slider, r, tt) =>
         LET target0 == IF tt = "" THEN current_color ELSE tt
             target  == IF target0 = "" THEN None ELSE target0
             repl    == IF r = "" THEN None ELSE r
         IN  /\ _undo_stack' = Append(_undo_stack, pixels)
             /\ \A x \in Coord, y \in Coord :
                  Cell(pixels', x, y) = IF Distance(Cell(pixels, x, y), target) <= slider
                                        THEN repl ELSE Cell(pixels, x, y)]_vars

\* C27: while fill mode is active, a press and release on cell (x, y) (the
\* tap-down event, then the cell's click event) flood-fills with the colour
\* the cell had before the press as target: the 4-connected region of that
\* colour within tolerance becomes the current colour, and the one snapshot
\* pushed holds the grid as it was before the press.
C27_FillPressUsesColourBeforePress ==
  [][(/\ op.name = "_gd_tap_down" /\ InGrid(op.x, op.y)
      /\ fill_mode /\ ~sampler_mode
      /\ op'.name = "on_click" /\ op'.x = op.x /\ op'.y = op.y
      /\ current_color \in CellValues
      /\ \A c \in Coord \X Coord : Cell(Last(pre_log), c[1], c[2]) \in CellValues)
     => LET before == Last(pre_log)
            target == Cell(before, op.x, op.y)
        IN  /\ op'.c1 = target
            /\ Last(_undo_stack') = before
            /\ Len(_undo_stack') = Len(pointer.undo0) + 1
            /\ LET region == Component(before, <<op.x, op.y>>, target, op'.t)
               IN  \A c \in Coord \X Coord :
                     Cell(pixels', c[1], c[2]) =
                       IF c \in region THEN current_color ELSE Cell(before, c[1], c[2])]_vars

\* C28: while sampler mode is active, pointer events on a cell (tap down, pan
\* update, click) never modify the pixel grid or the history stacks; the click
\* sets the current colour to the value the cell held before the press (None
\* for a transparent cell) and switches sampler mode off.
C28_SamplerLeavesGrid ==
  [][sampler_mode =>
       \A c \in PointedCells :
         /\ (\/ _gd_tap_down(c[1], c[2])
             \/ _gd_pan_update(c[1], c[2])
             \/ \E t \in SliderValues : on_click(c[1], c[2], t))
            => /\ pixels' = pixels
               /\ _undo_stack' = _undo_stack
               /\ _redo_stack' = _redo_stack
         /\ (\E t \in SliderValues : on_click(c[1], c[2], t))
            => /\ ~sampler_mode'
               /\ current_color' =
                    IF op.name = "_gd_tap_down" /\ op.x = c[1] /\ op.y = c[2]
                    THEN Cell(Last(pre_log), c[1], c[2]) ELSE Cell(pixels, c[1], c[2])]_vars

\* C29: a fill-mode click always pushes one undo snapshot, the current grid,
\* and empties the redo stack, also when the fill is a no-op because the
\* seed's colour equals the current colour: the grid is then unchanged.
C29_FillClickAlwaysPushes ==
  [][(fill_mode /\ ~sampler_mode /\ op'.name = "on_click") =>
       \A c \in PointedCells, t \in SliderValues :
         on_click(c[1], c[2], t)
         => /\ _undo_stack' = Append(_undo_stack, pixels)
            /\ _redo_stack' = <<>>
            /\ Cell(pixels, c[1], c[2]) = current_color => pixels' = pixels]_vars

\* A fill-mode click on a cell of the current colour, made after an undo: the
\* grid is the snapshot just pushed and the redo stack is empty.
C29_Witness ==
  /\ op.name = "on_click" /\ fill_mode /\ op.t >= 0 /\ op.c1 = op.c2
  /\ nmut = MaxMutations /\ Len(pre_log) = 1
  /\ _undo_stack # <<>> /\ Last(_undo_stack) = pixels
  /\ _redo_stack = <<>>

(***************************************************************************)
(* Properties of the MP3 script (SpecBatch).                               *)
(***************************************************************************)
\* C30: the script processes the folder's .mp3 files in ascending name order,
\* strictly one at a time: a file's icon upload returns before its audio
\* upload starts, the audio upload carries the media id that file's icon
\* upload returned, no upload for a later file starts before the audio upload
\* of every earlier file has returned, and an exception for one file stops the
\* batch with no upload for any later file.
C30_BatchIsSequential ==
  batch.pc # "none" =>
    LET log == batch.log
        names == {batch.listed[i] : i \in 1..Len(batch.listed)}
    IN  \A k \in 1..Len(log) :
          /\ log[k].f \in names
          /\ log[k].e = "icon_call" =>
               /\ k = 1 \/ (log[k - 1].e = "audio_return" /\ log[k - 1].f < log[k].f)
               /\ \A g \in names : g < log[k].f =>
                    \E j \in 1..(k - 1) : log[j].e = "audio_return" /\ log[j].f = g
          /\ log[k].e = "icon_return" =>
               k > 1 /\ log[k - 1].e = "icon_call" /\ log[k - 1].f = log[k].f
          /\ log[k].e = "audio_call" =>
               /\ k > 1 /\ log[k - 1].e = "icon_return" /\ log[k - 1].f = log[k].f
               /\ log[k].id = log[k - 1].id
          /\ log[k].e = "audio_return" =>
               k > 1 /\ log[k - 1].e = "audio_call" /\ log[k - 1].f = log[k].f
          /\ log[k].e = "raise" => k = Len(log)
          /\ (batch.pc = "raised" /\ k = Len(log)) => log[k].e = "raise"

\* A folder listed in descending order: two files have been uploaded, with
\* different media ids, and the third file's icon upload has raised.
C30_Witness ==
  /\ batch.pc = "raised"
  /\ Len(batch.listed) = 3
  /\ \A i \in 1..2 : batch.listed[i] > batch.listed[i + 1]
  /\ Len(batch.log) = 10
  /\ batch.log[9].e = "icon_call"
  /\ batch.log[3].id # batch.log[7].id

====
